---- MODULE Spec2Model ----
(***************************************************************************)
(* A model of the capacity-aware partition managers and the duplicate      *)
(* detection engine of the document research tool.                         *)
(*                                                                         *)
(*   MultiSheetManager        multi_sheet_manager.py + sheets_utils.py     *)
(*   AutoScalingSheetManager  auto_scaling_sheets.py                       *)
(*                                                                         *)
(* The spreadsheet backend (gspread / Drive) is modelled by its contents:  *)
(* a spreadsheet is a sequence of worksheets, a worksheet the sequence of  *)
(* its rows.  Every backend call that creates or writes may fail; reads    *)
(* are taken to succeed.  A failed write writes nothing.                   *)
(***************************************************************************)
EXTENDS Integers, Sequences, FiniteSets, TLC

(***************************************************************************)
(* Bounds of the model.  MAX_ROWS_PER_SHEET and MAX_SHEETS_PER_SPREADSHEET *)
(* are the configured limits of config.py (5000 and 10), SAFE_ROW_LIMIT    *)
(* the one of auto_scaling_sheets.py (900000); they are scaled down so     *)
(* that overflow is reached.                                               *)
(***************************************************************************)
MAX_ROWS_PER_SHEET == 3
MAX_SHEETS_PER_SPREADSHEET == 2
SAFE_ROW_LIMIT == 3
MaxRec == 1
MaxBatch == 4
MaxChunk == 4
MaxTotal == 5
MaxFaults == 2
MaxKey == 3
MaxSet == 3
MaxRows == 1

Records == 0..MaxRec          \* record 0 has only empty values
DataLists == UNION {[1..n -> Records] : n \in 0..MaxBatch}

Max(a, b) == IF a >= b THEN a ELSE b
Min(a, b) == IF a <= b THEN a ELSE b

(***************************************************************************)
(* Rows.  A row is the header row or the values of one record.             *)
(***************************************************************************)
HeaderRow == <<"header", 0>>
Row(r) == <<"data", r>>
EmptyRow == Row(0)
AsRows(data) == [k \in 1..Len(data) |-> Row(data[k])]
\* a row of add_file_data carries sheet_id and row_number: it is never blank
FileRow(r) == <<"file", r>>
AsFileRows(data) == [k \in 1..Len(data) |-> FileRow(data[k])]

VARIABLES
    mgr,                   \* which manager the caller drives
    spreadsheets,          \* backend: spreadsheets -> worksheets -> rows
    current_spreadsheet,   \* MultiSheetManager: 0 is None
    current_worksheet,     \* MultiSheetManager: <<spreadsheet, worksheet>>
    pc,                    \* the call in progress, or "idle"
    call,                  \* locals of the call in progress
    sheet_registry,        \* AutoScalingSheetManager.sheet_registry
    ret,                   \* what the last finished call returned
    hist,                  \* history of the call in progress / last call
    submitted              \* records handed to the managers so far

vars == <<mgr, spreadsheets, current_spreadsheet, current_worksheet,
          sheet_registry, pc, call, ret, hist, submitted>>

NoneWs == <<0, 0>>

(***************************************************************************)
(* sheets_utils.py                                                         *)
(***************************************************************************)
\* any(cell.strip() for cell in row) is false
RowIsBlank(row) == row = EmptyRow

\* the values API returns no trailing blank rows
RECURSIVE Trim(_)
Trim(ws) ==
    IF Len(ws) > 0 /\ RowIsBlank(ws[Len(ws)])
    THEN Trim(SubSeq(ws, 1, Len(ws) - 1))
    ELSE ws

\* worksheet.update(range starting at start_row, rows)
Update(ws, start_row, rows) ==
    Trim([k \in 1..Max(Len(ws), start_row + Len(rows) - 1) |->
            IF k >= start_row /\ k < start_row + Len(rows)
            THEN rows[k - start_row + 1]
            ELSE IF k <= Len(ws) THEN ws[k] ELSE EmptyRow])

get_sheet_row_count(ws) ==
    Cardinality({k \in 1..Len(ws) : ~RowIsBlank(ws[k])})

\* is_sheet_full taking a worksheet at the ceiling as having room
is_sheet_full_above(ws) == get_sheet_row_count(ws) > MAX_ROWS_PER_SHEET

is_sheet_full(ws) == get_sheet_row_count(ws) >= MAX_ROWS_PER_SHEET

\* the worksheet a reference <<s, w>> points to
Sheet(ss, ref) == ss[ref[1]][ref[2]]

PutSheet(ss, ref, ws) ==
    [ss EXCEPT ![ref[1]] = [@ EXCEPT ![ref[2]] = ws]]

(***************************************************************************)
(* The manager together with the backend it talks to is threaded through   *)
(* the operators below as a record m:                                      *)
(*   ss, cs, cw   spreadsheets, current_spreadsheet, current_worksheet     *)
(*   reg          AutoScalingSheetManager.sheet_registry                   *)
(*   wrote        rows the backend accepted in row writes                  *)
(*   tried        rows for which a row write was issued                    *)
(*   faults       the backend failures that have occurred                  *)
(***************************************************************************)
Fault(m, kind) == [m EXCEPT !.faults = @ \cup {kind}]

setup_sheet_headers(m, ref, fail) ==
    IF fail THEN Fault(m, "header")
    ELSE [m EXCEPT !.ss = PutSheet(m.ss, ref, Update(Sheet(m.ss, ref), 1, <<HeaderRow>>))]

add_data_to_sheet(m, ref, r, fail) ==
    LET ws == Sheet(m.ss, ref)
        next_row == get_sheet_row_count(ws) + 1
        t == [m EXCEPT !.tried = @ + 1]
    IN IF fail THEN [m |-> Fault(t, "write"), ok |-> FALSE]
       ELSE [m |-> [t EXCEPT !.ss = PutSheet(m.ss, ref, Update(ws, next_row, <<Row(r)>>)),
                             !.wrote = @ + 1],
             ok |-> TRUE]

batch_update_sheet(m, ref, data, fail) ==
    LET ws == Sheet(m.ss, ref)
        start_row == get_sheet_row_count(ws) + 1
        t == [m EXCEPT !.tried = @ + Len(data)]
    IN IF fail THEN [m |-> Fault(t, "write"), ok |-> FALSE]
       ELSE [m |-> [t EXCEPT !.ss = PutSheet(m.ss, ref, Update(ws, start_row, AsRows(data))),
                             !.wrote = @ + Len(data)],
             ok |-> TRUE]

\* spreadsheet.add_worksheet: the new tab is the last one and has no rows
create_new_sheet_tab(m, s, fail) ==
    IF fail THEN [m |-> Fault(m, "tab"), w |-> 0]
    ELSE [m |-> [m EXCEPT !.ss = [@ EXCEPT ![s] = Append(@, <<>>)]],
          w |-> Len(m.ss[s]) + 1]

FirstNotFull(sheet) ==
    LET open == {w \in 1..Len(sheet) : ~is_sheet_full(sheet[w])}
    IN IF open = {} THEN 0 ELSE CHOOSE w \in open : \A v \in open : w <= v

find_available_sheet(m, s, tabFail) ==
    LET First(w) ==
            IF w # 0 THEN [m |-> m, w |-> w] ELSE create_new_sheet_tab(m, s, tabFail)
    IN First(FirstNotFull(m.ss[s]))

(***************************************************************************)
(* multi_sheet_manager.py                                                  *)
(*                                                                         *)
(* The outcomes of creating a spreadsheet: "ok"; "none", create_spreadsheet*)
(* returns None and _create_new_spreadsheet raises; "open", the spreadsheet*)
(* exists but open_by_key raises and _create_new_spreadsheet returns None. *)
(* F gives the outcome of each fallible backend call of one step:          *)
(* ss1, tab1 for get_or_create_spreadsheet(), ss2, tab2 for the overflow   *)
(* path, w1 and w2 for the first and second row write, hdr for headers.    *)
(***************************************************************************)
SsOutcomes == {"ok", "none", "open"}
AllFaults == [tab1 : BOOLEAN, tab2 : BOOLEAN, ss1 : SsOutcomes, ss2 : SsOutcomes,
              w1 : BOOLEAN, w2 : BOOLEAN, hdr : BOOLEAN]
B2N(b) == IF b THEN 1 ELSE 0
FaultCount(F) == B2N(F.tab1) + B2N(F.tab2) + B2N(F.ss1 # "ok") + B2N(F.ss2 # "ok")
                 + B2N(F.w1) + B2N(F.w2) + B2N(F.hdr)
\* at most MaxFaults backend calls fail in one step
Faults == {F \in AllFaults : FaultCount(F) <= MaxFaults}

create_new_spreadsheet(m, out, hdrFail) ==
    IF out = "none" THEN [m |-> Fault(m, "create"), ret |-> 0, exc |-> TRUE]
    ELSE IF out = "open"
    THEN [m |-> Fault([m EXCEPT !.ss = Append(@, << <<>> >>)], "create"),
          ret |-> 0, exc |-> FALSE]
    ELSE LET n == Len(m.ss) + 1
             made == [m EXCEPT !.ss = Append(@, << <<>> >>), !.cs = n]
             head == setup_sheet_headers(made, <<n, 1>>, hdrFail)
         IN [m |-> [head EXCEPT !.cw = <<n, 1>>], ret |-> n, exc |-> FALSE]

\* spreadsheet_has_capacity keeping the current worksheet without looking
\* at its rows
spreadsheet_has_capacity_keeps_active(m, tabFail) ==
    IF m.cs = 0 THEN [m |-> m, ok |-> FALSE]
    ELSE IF m.cw # NoneWs /\ m.cw[1] = m.cs THEN [m |-> m, ok |-> TRUE]
    ELSE [m |-> m, ok |-> FALSE]

spreadsheet_has_capacity(m, tabFail) ==
    LET Found(mm, w) ==
            IF w # 0 THEN [m |-> [mm EXCEPT !.cw = <<m.cs, w>>], ok |-> TRUE]
            ELSE [m |-> mm, ok |-> FALSE]
        Avail(f) == Found(f.m, f.w)
    IN IF m.cs = 0 THEN [m |-> m, ok |-> FALSE]
       ELSE IF Len(m.ss[m.cs]) >= MAX_SHEETS_PER_SPREADSHEET
       THEN Found(m, FirstNotFull(m.ss[m.cs]))
       ELSE Avail(find_available_sheet(m, m.cs, tabFail))

get_or_create_spreadsheet(m, force_new, tabFail, out, hdrFail) ==
    LET Checked(c) ==
            IF c.ok THEN [m |-> c.m, ret |-> c.m.cs, exc |-> FALSE]
            ELSE create_new_spreadsheet(c.m, out, hdrFail)
    IN IF force_new \/ m.cs = 0 THEN create_new_spreadsheet(m, out, hdrFail)
       ELSE Checked(spreadsheet_has_capacity(m, tabFail))

\* generate_record_key of a stored or new record: None (0) without key values
RecordKey(r) == r

\* worksheet.get_all_records(): the first row names the columns, so the
\* configured check fields are columns only under a header row
get_all_records(ws) ==
    IF Len(ws) >= 1 /\ ws[1] = HeaderRow
    THEN [k \in 1..(Len(ws) - 1) |-> ws[k + 1][2]]
    ELSE <<>>

\* DuplicateDetector.exact_match on the configured check fields
exact_match_record(r, existing_data) ==
    /\ RecordKey(r) # 0
    /\ \E k \in 1..Len(existing_data) : RecordKey(existing_data[k]) = RecordKey(r)

check_for_duplicates_in_current_data(m, r) ==
    /\ m.cw # NoneWs
    \* get_all_records of a deleted worksheet raises: lines 180-182
    /\ m.cw[2] # 0
    /\ exact_match_record(r, get_all_records(Sheet(m.ss, m.cw)))

\* lines 288-319 of add_data: place the row and write it
add_data_place(m, r, F) ==
    LET Written(a) == [m |-> a.m, success |-> a.ok]
        Write(mm) == Written(add_data_to_sheet(mm, mm.cw, r, F.w1))
        Headed(sw) ==
            IF get_sheet_row_count(Sheet(sw.ss, sw.cw)) = 0
            THEN Write(setup_sheet_headers(sw, sw.cw, F.hdr)) ELSE Write(sw)
        Forced(n) ==
            IF n.exc \/ n.ret = 0 THEN [m |-> n.m, success |-> FALSE] ELSE Write(n.m)
        Moved(f, sp) ==
            IF f.w # 0 THEN Headed([f.m EXCEPT !.cw = <<sp, f.w>>])
            ELSE Forced(get_or_create_spreadsheet(f.m, TRUE, F.tab2, F.ss2, F.hdr))
        Placed(g) ==
            IF g.exc THEN [m |-> g.m, success |-> FALSE]
            ELSE IF g.ret = 0 \/ g.m.cw = NoneWs THEN [m |-> g.m, success |-> FALSE]
            ELSE IF is_sheet_full(Sheet(g.m.ss, g.m.cw))
            THEN Moved(find_available_sheet(g.m, g.ret, F.tab2), g.ret)
            ELSE Write(g.m)
    IN Placed(get_or_create_spreadsheet(m, FALSE, F.tab1, F.ss1, F.hdr))

\* add_data with duplicate detection enabled and DUPLICATE_ACTION = "skip"
add_data_row(m, r, F) ==
    LET Placed(p) == [m |-> p.m, success |-> p.success, action_taken |-> "none"]
    IN IF check_for_duplicates_in_current_data(m, r)
       THEN [m |-> m, success |-> FALSE, action_taken |-> "skipped"]
       ELSE Placed(add_data_place(m, r, F))

\* WriteCounted without the count of the rows of a failed write
WriteCounted_drops_failed(m, r, sp, data, fail) ==
    LET Counted(u) ==
            IF u.ok
            THEN [m |-> u.m, r |-> [r EXCEPT !.successful_rows = @ + Len(data)],
                  exc |-> sp = 0]
            ELSE [m |-> u.m, r |-> r, exc |-> FALSE]
    IN Counted(batch_update_sheet(m, m.cw, data, fail))

\* one counted row write of add_batch_data; sp is the local spreadsheet,
\* and spreadsheet.title raises when it is None
WriteCounted(m, r, sp, data, fail) ==
    LET Counted(u) ==
            IF u.ok
            THEN [m |-> u.m, r |-> [r EXCEPT !.successful_rows = @ + Len(data)],
                  exc |-> sp = 0]
            ELSE [m |-> u.m, r |-> [r EXCEPT !.failed_rows = @ + Len(data)],
                  exc |-> FALSE]
    IN Counted(batch_update_sheet(m, m.cw, data, fail))

\* lines 374-393 and 396-412: move to another worksheet, write data there
WriteToNext(m, r, sp, data, F) ==
    LET Headed(sw) ==
            IF get_sheet_row_count(Sheet(sw.ss, sw.cw)) = 0
            THEN WriteCounted(setup_sheet_headers(sw, sw.cw, F.hdr), r, sp, data, F.w2)
            ELSE WriteCounted(sw, r, sp, data, F.w2)
        Forced(n) ==
            IF n.exc THEN [m |-> n.m, r |-> r, exc |-> TRUE]
            ELSE IF n.m.cw # NoneWs THEN WriteCounted(n.m, r, n.ret, data, F.w2)
            ELSE [m |-> n.m, r |-> r, exc |-> FALSE]
        Moved(f) ==
            IF f.w # 0 THEN Headed([f.m EXCEPT !.cw = <<sp, f.w>>])
            ELSE Forced(get_or_create_spreadsheet(f.m, TRUE, F.tab2, F.ss2, F.hdr))
    IN Moved(find_available_sheet(m, sp, F.tab2))

\* the body of the loop of add_batch_data, lines 347-421
add_batch_data_body(m, r, chunk, F) ==
    LET Rest(p, sp, remaining_chunk) ==
            IF p.exc \/ Len(remaining_chunk) = 0 THEN p
            ELSE WriteToNext(p.m, p.r, sp, remaining_chunk, F)
        Split(mm, sp, available_space) ==
            IF available_space > 0
            THEN Rest(WriteCounted(mm, r, sp, SubSeq(chunk, 1, available_space), F.w1),
                      sp, SubSeq(chunk, available_space + 1, Len(chunk)))
            ELSE WriteToNext(mm, r, sp, chunk, F)
        Fit(mm, sp, current_rows) ==
            IF current_rows + Len(chunk) > MAX_ROWS_PER_SHEET
            THEN Split(mm, sp, MAX_ROWS_PER_SHEET - current_rows)
            ELSE WriteCounted(mm, r, sp, chunk, F.w1)
        Placed(g) ==
            IF g.exc THEN [m |-> g.m, r |-> r, exc |-> TRUE]
            ELSE IF g.ret = 0 \/ g.m.cw = NoneWs
            THEN [m |-> g.m, r |-> [r EXCEPT !.failed_rows = @ + Len(chunk)],
                  exc |-> FALSE]
            ELSE Fit(g.m, g.ret, get_sheet_row_count(Sheet(g.m.ss, g.m.cw)))
    IN Placed(get_or_create_spreadsheet(m, FALSE, F.tab1, F.ss1, F.hdr))

(***************************************************************************)
(* auto_scaling_sheets.py                                                  *)
(*                                                                         *)
(* Of the four worksheets of a spreadsheet only File_Metadata is modelled. *)
(* The outcomes of create_new_sheet: "ok"; "create", gc.create raises;     *)
(* "setup", the spreadsheet exists but a later call of the try block       *)
(* raises.  In both failures create_new_sheet raises.                      *)
(***************************************************************************)
AsmOutcomes == {"ok", "create", "setup"}

create_new_sheet(m, out) ==
    IF out = "create" THEN [m |-> Fault(m, "create"), exc |-> TRUE]
    ELSE IF out = "setup"
    THEN [m |-> Fault([m EXCEPT !.ss = Append(@, << <<>> >>)], "create"), exc |-> TRUE]
    ELSE LET sheet_info == [id |-> Len(m.ss) + 1, rows_used |-> 1,
                            max_rows |-> SAFE_ROW_LIMIT]
         IN [m |-> [m EXCEPT !.ss = Append(@, << <<HeaderRow>> >>),
                             !.reg.sheets = Append(@, sheet_info)],
             exc |-> FALSE]

\* k is the position of the returned sheet in sheet_registry['sheets']
get_current_sheet(m, out) ==
    LET First(c) == [m |-> c.m, k |-> Len(c.m.reg.sheets), exc |-> c.exc]
        Scaled(c) ==
            IF c.exc THEN [m |-> c.m, k |-> 0, exc |-> TRUE]
            ELSE [m |-> [c.m EXCEPT !.reg.current_sheet_index = Len(c.m.reg.sheets) - 1],
                  k |-> Len(c.m.reg.sheets), exc |-> FALSE]
        Current(k, main_worksheet) ==
            IF main_worksheet.rows_used >= main_worksheet.max_rows
            THEN Scaled(create_new_sheet(m, out))
            ELSE [m |-> m, k |-> k, exc |-> FALSE]
    IN IF Len(m.reg.sheets) = 0 THEN First(create_new_sheet(m, out))
       ELSE Current(m.reg.current_sheet_index + 1,
                    m.reg.sheets[m.reg.current_sheet_index + 1])

\* add_file_data_body raising the counter for a failed write too
add_file_data_body_counts_failed(m, total_added, batch, out, wfail) ==
    LET Write(t, k, ref, start_row) ==
            IF wfail
            THEN [m |-> Fault(t, "write"), total_added |-> total_added, exc |-> FALSE]
            ELSE [m |-> [t EXCEPT
                           !.ss = PutSheet(t.ss, ref,
                                    Update(Sheet(t.ss, ref), start_row, AsFileRows(batch))),
                           !.wrote = @ + Len(batch)],
                  total_added |-> total_added + Len(batch), exc |-> FALSE]
        On(mm, k, current_sheet) ==
            Write([mm EXCEPT !.tried = @ + Len(batch),
                             !.reg.sheets[k].rows_used = @ + Len(batch)],
                  k, <<current_sheet.id, 1>>, current_sheet.rows_used + 1)
        Got(g) ==
            IF g.exc THEN [m |-> g.m, total_added |-> total_added, exc |-> TRUE]
            ELSE On(g.m, g.k, g.m.reg.sheets[g.k])
    IN Got(get_current_sheet(m, out))

\* the body of the loop of add_file_data, lines 282-330
add_file_data_body(m, total_added, batch, out, wfail) ==
    LET Write(t, k, ref, start_row) ==
            IF wfail
            THEN [m |-> Fault(t, "write"), total_added |-> total_added, exc |-> FALSE]
            ELSE [m |-> [t EXCEPT
                           !.ss = PutSheet(t.ss, ref,
                                    Update(Sheet(t.ss, ref), start_row, AsFileRows(batch))),
                           !.reg.sheets[k].rows_used = @ + Len(batch),
                           !.wrote = @ + Len(batch)],
                  total_added |-> total_added + Len(batch), exc |-> FALSE]
        On(mm, k, current_sheet) ==
            Write([mm EXCEPT !.tried = @ + Len(batch)],
                  k, <<current_sheet.id, 1>>, current_sheet.rows_used + 1)
        Got(g) ==
            IF g.exc THEN [m |-> g.m, total_added |-> total_added, exc |-> TRUE]
            ELSE On(g.m, g.k, g.m.reg.sheets[g.k])
    IN Got(get_current_sheet(m, out))

(***************************************************************************)
(* The state machine.  One caller drives one manager; a call in progress   *)
(* runs to its end before the next one starts.                             *)
(***************************************************************************)
NoCall == [op |-> "none"]
NoRet == [op |-> "none"]
\* hist accounts for the call in progress or last finished: whether it
\* started on a fresh manager, the number of records passed, the rows sent
\* to a row write (tried) and written (wrote), the kinds of backend failures,
\* and whether a row write succeeded in a step after a failed row write
NoHist == [op |-> "none", fresh |-> TRUE, total |-> 0, wrote |-> 0, tried |-> 0,
           faults |-> {}, late |-> FALSE]

Init ==
    /\ mgr \in {"multi", "auto"}
    /\ spreadsheets = <<>>
    /\ current_spreadsheet = 0
    /\ current_worksheet = NoneWs
    /\ sheet_registry = [sheets |-> <<>>, current_sheet_index |-> 0, total_rows_used |-> 0]
    /\ pc = "idle"
    /\ call = NoCall
    /\ ret = NoRet
    /\ hist = NoHist
    /\ submitted = 0

\* the manager and its backend at the start of a call / in the middle of one
Fresh == spreadsheets = <<>>
Mgr(h) == [ss |-> spreadsheets, cs |-> current_spreadsheet, cw |-> current_worksheet,
           reg |-> sheet_registry, wrote |-> h.wrote, tried |-> h.tried,
           faults |-> h.faults]
StartHist(op, total) == [op |-> op, fresh |-> Fresh, total |-> total, wrote |-> 0,
                         tried |-> 0, faults |-> {}, late |-> FALSE]
HistOf(m, h) == [h EXCEPT !.wrote = m.wrote, !.tried = m.tried, !.faults = m.faults,
                          !.late = @ \/ ("write" \in h.faults /\ m.wrote > h.wrote)]

Store(m) ==
    /\ spreadsheets' = m.ss
    /\ current_spreadsheet' = m.cs
    /\ current_worksheet' = m.cw
    /\ sheet_registry' = m.reg

ChunkSizes == 1..MaxChunk
ChunkAt(data, i, size) == SubSeq(data, i + 1, Min(i + size, Len(data)))

\* MultiSheetManager.add_data(data_row)
add_data(r, F) ==
    /\ mgr = "multi" /\ pc = "idle" /\ submitted < MaxTotal
    /\ LET Done(a) ==
               /\ Store(a.m)
               /\ ret' = [op |-> "add_data", raised |-> FALSE, success |-> a.success,
                          action_taken |-> a.action_taken]
               /\ hist' = HistOf(a.m, StartHist("add_data", 1))
       IN Done(add_data_row(Mgr(StartHist("add_data", 1)), r, F))
    /\ submitted' = submitted + 1
    /\ UNCHANGED <<mgr, pc, call>>

\* MultiSheetManager.add_batch_data(data_list, chunk_size): entry
add_batch_data(data_list, chunk_size) ==
    /\ mgr = "multi" /\ pc = "idle" /\ submitted + Len(data_list) <= MaxTotal
    /\ LET results == [total_rows |-> Len(data_list), successful_rows |-> 0,
                       failed_rows |-> 0]
       IN IF Len(data_list) = 0
          THEN /\ ret' = [op |-> "add_batch_data", raised |-> FALSE, results |-> results]
               /\ UNCHANGED <<pc, call>>
          ELSE /\ pc' = "add_batch_data"
               /\ call' = [op |-> "add_batch_data", data_list |-> data_list,
                           chunk_size |-> chunk_size, i |-> 0, results |-> results]
               /\ ret' = NoRet
    /\ hist' = StartHist("add_batch_data", Len(data_list))
    /\ submitted' = submitted + Len(data_list)
    /\ UNCHANGED <<mgr, spreadsheets, current_spreadsheet, current_worksheet,
                   sheet_registry>>

\* one iteration of the loop of add_batch_data; the last one returns
add_batch_data_chunk(F) ==
    /\ pc = "add_batch_data"
    /\ LET last == call.i + call.chunk_size >= Len(call.data_list)
           Done(b) ==
               /\ Store(b.m)
               /\ hist' = HistOf(b.m, hist)
               /\ IF b.exc
                  THEN /\ ret' = [op |-> "add_batch_data", raised |-> FALSE,
                                  results |-> [b.r EXCEPT !.failed_rows =
                                                 b.r.total_rows - b.r.successful_rows]]
                       /\ pc' = "idle" /\ call' = NoCall
                  ELSE IF last
                  THEN /\ ret' = [op |-> "add_batch_data", raised |-> FALSE,
                                  results |-> b.r]
                       /\ pc' = "idle" /\ call' = NoCall
                  ELSE /\ call' = [call EXCEPT !.i = @ + call.chunk_size,
                                               !.results = b.r]
                       /\ UNCHANGED <<pc, ret>>
       IN Done(add_batch_data_body(Mgr(hist), call.results,
                  ChunkAt(call.data_list, call.i, call.chunk_size), F))
    /\ UNCHANGED <<mgr, submitted>>

\* AutoScalingSheetManager.add_file_data(file_data, batch_size): entry
add_file_data(file_data, batch_size) ==
    /\ mgr = "auto" /\ pc = "idle" /\ submitted + Len(file_data) <= MaxTotal
    /\ IF Len(file_data) = 0
       THEN /\ ret' = [op |-> "add_file_data", raised |-> FALSE,
                       files_processed |-> 0, rows_added |-> 0]
            /\ UNCHANGED <<pc, call>>
       ELSE /\ pc' = "add_file_data"
            /\ call' = [op |-> "add_file_data", file_data |-> file_data,
                        batch_size |-> batch_size, i |-> 0, total_added |-> 0]
            /\ ret' = NoRet
    /\ hist' = StartHist("add_file_data", Len(file_data))
    /\ submitted' = submitted + Len(file_data)
    /\ UNCHANGED <<mgr, spreadsheets, current_spreadsheet, current_worksheet,
                   sheet_registry>>

\* add_file_data_batch leaving the loop when the write of a batch fails
add_file_data_batch_breaks(out, wfail) ==
    /\ pc = "add_file_data"
    /\ LET last == call.i + call.batch_size >= Len(call.file_data)
           Done(b) ==
               /\ hist' = HistOf(b.m, hist)
               /\ IF b.exc
                  THEN /\ Store(b.m)
                       /\ ret' = [op |-> "add_file_data", raised |-> TRUE,
                                  files_processed |-> 0, rows_added |-> 0]
                       /\ pc' = "idle" /\ call' = NoCall
                  ELSE IF last \/ b.m.wrote = hist.wrote
                  THEN /\ Store([b.m EXCEPT !.reg.total_rows_used = @ + b.total_added])
                       /\ ret' = [op |-> "add_file_data", raised |-> FALSE,
                                  files_processed |-> Len(call.file_data),
                                  rows_added |-> b.total_added]
                       /\ pc' = "idle" /\ call' = NoCall
                  ELSE /\ Store(b.m)
                       /\ call' = [call EXCEPT !.i = @ + call.batch_size,
                                               !.total_added = b.total_added]
                       /\ UNCHANGED <<pc, ret>>
       IN Done(add_file_data_body(Mgr(hist), call.total_added,
                  ChunkAt(call.file_data, call.i, call.batch_size), out, wfail))
    /\ UNCHANGED <<mgr, submitted>>

\* one iteration of the loop of add_file_data; the last one updates the
\* registry total and returns the summary
add_file_data_batch(out, wfail) ==
    /\ pc = "add_file_data"
    /\ LET last == call.i + call.batch_size >= Len(call.file_data)
           Done(b) ==
               /\ hist' = HistOf(b.m, hist)
               /\ IF b.exc
                  THEN /\ Store(b.m)
                       /\ ret' = [op |-> "add_file_data", raised |-> TRUE,
                                  files_processed |-> 0, rows_added |-> 0]
                       /\ pc' = "idle" /\ call' = NoCall
                  ELSE IF last
                  THEN /\ Store([b.m EXCEPT !.reg.total_rows_used = @ + b.total_added])
                       /\ ret' = [op |-> "add_file_data", raised |-> FALSE,
                                  files_processed |-> Len(call.file_data),
                                  rows_added |-> b.total_added]
                       /\ pc' = "idle" /\ call' = NoCall
                  ELSE /\ Store(b.m)
                       /\ call' = [call EXCEPT !.i = @ + call.batch_size,
                                               !.total_added = b.total_added]
                       /\ UNCHANGED <<pc, ret>>
       IN Done(add_file_data_body(Mgr(hist), call.total_added,
                  ChunkAt(call.file_data, call.i, call.batch_size), out, wfail))
    /\ UNCHANGED <<mgr, submitted>>

Next ==
    \/ \E r \in Records, F \in Faults : add_data(r, F)
    \/ \E data_list \in DataLists, chunk_size \in ChunkSizes :
          add_batch_data(data_list, chunk_size)
    \/ \E F \in Faults : add_batch_data_chunk(F)
    \/ \E file_data \in DataLists, batch_size \in ChunkSizes :
          add_file_data(file_data, batch_size)
    \/ \E out \in AsmOutcomes, wfail \in BOOLEAN : add_file_data_batch(out, wfail)

Spec == Init /\ [][Next]_vars

(***************************************************************************)
(* A caller that appends one record set twice with add_data, duplicate     *)
(* detection enabled and DUPLICATE_ACTION = "skip".                        *)
(***************************************************************************)
KeyLists == UNION {[1..n -> 1..MaxKey] : n \in 1..MaxSet}

RECURSIVE CountData(_)
CountData(ws) ==
    IF ws = <<>> THEN 0
    ELSE B2N(Head(ws)[1] = "data") + CountData(Tail(ws))
RECURSIVE SumSheet(_)
SumSheet(sheet) == IF sheet = <<>> THEN 0 ELSE CountData(Head(sheet)) + SumSheet(Tail(sheet))
RECURSIVE StoredRecords(_)
StoredRecords(ss) == IF ss = <<>> THEN 0 ELSE SumSheet(Head(ss)) + StoredRecords(Tail(ss))

InitTwice ==
    /\ mgr = "multi"
    /\ spreadsheets = <<>>
    /\ current_spreadsheet = 0
    /\ current_worksheet = NoneWs
    /\ sheet_registry = [sheets |-> <<>>, current_sheet_index |-> 0, total_rows_used |-> 0]
    /\ pc = "twice"
    /\ \E L \in KeyLists : call = [op |-> "twice", data_list |-> L, i |-> 0, first |-> 0]
    /\ ret = NoRet
    /\ hist = NoHist
    /\ submitted = 0

\* the next add_data call of the pass in progress
append_next(F) ==
    /\ pc = "twice" /\ call.i < 2 * Len(call.data_list)
    /\ LET Done(a) ==
               /\ Store(a.m)
               /\ ret' = [op |-> "add_data", raised |-> FALSE, success |-> a.success,
                          action_taken |-> a.action_taken]
               /\ hist' = [HistOf(a.m, hist) EXCEPT !.op = "add_data", !.total = @ + 1]
               /\ call' = [call EXCEPT !.i = @ + 1,
                                       !.first = IF call.i + 1 = Len(call.data_list)
                                                 THEN StoredRecords(a.m.ss) ELSE @]
       IN Done(add_data_row(Mgr(hist), call.data_list[(call.i % Len(call.data_list)) + 1], F))
    /\ submitted' = submitted + 1
    /\ UNCHANGED <<mgr, pc>>

NextTwice == \E F \in Faults : append_next(F)

SpecTwice == InitTwice /\ [][NextTwice]_vars

(***************************************************************************)
(* Partitions and their rows.                                              *)
(***************************************************************************)
RECURSIVE Flatten(_)
Flatten(ss) == IF ss = <<>> THEN <<>> ELSE Head(ss) \o Flatten(Tail(ss))

\* the partitions: every worksheet of every spreadsheet of MultiSheetManager,
\* the File_Metadata worksheet of every spreadsheet of AutoScalingSheetManager
Partitions ==
    IF mgr = "multi" THEN Flatten(spreadsheets)
    ELSE [k \in 1..Len(spreadsheets) |-> spreadsheets[k][1]]
Ceiling == IF mgr = "multi" THEN MAX_ROWS_PER_SHEET ELSE SAFE_ROW_LIMIT
RowCounts == [k \in 1..Len(Partitions) |-> Len(Partitions[k])]
RecordCounts == [k \in 1..Len(Partitions) |-> Len(Partitions[k]) - B2N(Partitions[k] # <<>> /\ Partitions[k][1] = HeaderRow)]

BatchReturned == pc = "idle" /\ ret.op \in {"add_batch_data", "add_file_data"}

\* C1: one batch append of N+K records (K > 0) on a fresh manager, every
\* backend call succeeding, ends with exactly two partitions holding N and K
\* rows, whether the header row is counted as a row or not.
C1_Overflow ==
    (BatchReturned /\ hist.fresh /\ hist.faults = {} /\ hist.total > Ceiling)
        => \/ RowCounts = <<Ceiling, hist.total - Ceiling>>
           \/ RecordCounts = <<Ceiling, hist.total - Ceiling>>

\* C2: no partition ever holds more rows than its ceiling.
C2_Ceiling == \A k \in 1..Len(Partitions) : Len(Partitions[k]) <= Ceiling

\* C3: when the second pass over the same record set is over and no backend
\* call has failed, as many records are stored as after the first pass.
C3_Idempotent ==
    (pc = "twice" /\ call.i = 2 * Len(call.data_list) /\ hist.faults = {})
        => StoredRecords(spreadsheets) = call.first

\* C4: every registered partition's rows_used equals the number of rows the
\* partition holds, the header row and every row written, whatever row
\* writes have failed.
C4_Counter ==
    mgr = "auto" =>
        \A k \in 1..Len(sheet_registry.sheets) :
            sheet_registry.sheets[k].rows_used =
                Len(spreadsheets[sheet_registry.sheets[k].id][1])
C4_Witness ==
    /\ mgr = "auto" /\ pc = "idle" /\ ret.op = "add_file_data"
    /\ "write" \in hist.faults /\ hist.wrote > 0
    /\ Len(sheet_registry.sheets) >= 2

\* C5: add_batch_data returns, without raising, a result whose successful
\* and failed rows add up to the rows passed, the successful rows being the
\* rows written to partitions.
C5_BatchResult ==
    (pc = "idle" /\ ret.op = "add_batch_data") =>
        /\ ~ret.raised
        /\ ret.results.total_rows = hist.total
        /\ ret.results.successful_rows + ret.results.failed_rows = ret.results.total_rows
        /\ ret.results.successful_rows = hist.wrote
C5_Witness ==
    /\ pc = "idle" /\ ret.op = "add_batch_data"
    /\ ret.results.successful_rows > 0 /\ ret.results.failed_rows > 0
    /\ {"create", "write"} \subseteq hist.faults

\* the rows a finished batch append reports as accepted
Accepted ==
    IF ret.op = "add_batch_data" THEN ret.results.successful_rows ELSE ret.rows_added
CreationFailed == hist.faults \cap {"create", "tab"} # {}

\* C6: a batch append during which the creation of a partition or container
\* failed returns without raising, and the rows it reports accepted are the
\* rows written.
C6_CreateFailure ==
    (BatchReturned /\ CreationFailed) => (~ret.raised /\ Accepted = hist.wrote)

\* C7: a batch append in which row writes failed and no creation failed
\* returns without raising, has sent every record to a row write, and
\* reports as accepted exactly the rows whose write succeeded.
C7_WriteFailure ==
    (BatchReturned /\ "write" \in hist.faults /\ ~CreationFailed) =>
        /\ ~ret.raised
        /\ hist.tried = hist.total
        /\ Accepted = hist.wrote
C7_Witness ==
    /\ BatchReturned /\ hist.faults = {"write"} /\ hist.late
    /\ hist.wrote < hist.total

(***************************************************************************)
(* duplicate_detector.py                                                   *)
(*                                                                         *)
(* A text is a sequence of characters.  Field values are drawn from small  *)
(* sets over lower and upper case letters, the space and a punctuation     *)
(* mark; None and the empty string are both the empty sequence.            *)
(***************************************************************************)
UpperCase == {"A", "B"}
WhiteSpace == {" "}
WordChars == {"a", "b", "A", "B"}
lower(c) == IF c = "A" THEN "a" ELSE IF c = "B" THEN "b" ELSE c

RECURSIVE lstrip(_)
lstrip(t) == IF t # <<>> /\ Head(t) \in WhiteSpace THEN lstrip(Tail(t)) ELSE t
RECURSIVE rstrip(_)
rstrip(t) ==
    IF t # <<>> /\ t[Len(t)] \in WhiteSpace THEN rstrip(SubSeq(t, 1, Len(t) - 1)) ELSE t
\* re.sub(r'\s+', ' ', text)
RECURSIVE collapse_whitespace(_)
collapse_whitespace(t) ==
    IF t = <<>> THEN <<>>
    ELSE IF Head(t) \in WhiteSpace
    THEN <<" ">> \o collapse_whitespace(lstrip(t))
    ELSE <<Head(t)>> \o collapse_whitespace(Tail(t))
\* re.sub(r'[^\w\s]', '', text)
remove_punctuation(t) == SelectSeq(t, LAMBDA c : c \in WordChars \cup WhiteSpace)

normalize_text(text) ==
    IF text = <<>> THEN <<>>
    ELSE remove_punctuation(collapse_whitespace(
             [k \in 1..Len(rstrip(lstrip(text))) |-> lower(rstrip(lstrip(text))[k])]))

\* the code points of the characters of normalized texts and of "|"
Ord(c) == CASE c = " " -> 32 [] c = "a" -> 97 [] c = "b" -> 98 [] OTHER -> 124
RECURSIVE StrLT(_, _)
StrLT(s, t) ==
    IF t = <<>> THEN FALSE
    ELSE IF s = <<>> THEN TRUE
    ELSE IF Head(s) = Head(t) THEN StrLT(Tail(s), Tail(t))
    ELSE Ord(Head(s)) < Ord(Head(t))
RECURSIVE insort(_, _)
insort(x, lst) ==
    IF lst = <<>> THEN <<x>>
    ELSE IF StrLT(x, Head(lst)) THEN <<x>> \o lst
    ELSE <<Head(lst)>> \o insort(x, Tail(lst))
RECURSIVE sorted(_)
sorted(parts) == IF parts = <<>> THEN <<>> ELSE insort(Head(parts), sorted(Tail(parts)))
\* "|".join(parts)
RECURSIVE join(_)
join(parts) ==
    IF parts = <<>> THEN <<>>
    ELSE IF Len(parts) = 1 THEN parts[1]
    ELSE parts[1] \o <<"|">> \o join(Tail(parts))

DUPLICATE_CHECK_FIELDS == <<"Document ID", "Source URL">>
CONTENT_FIELDS_FOR_HASH == <<"Summary", "Tags">>
title_field == "Document Title"
FieldText(field) ==
    CASE field = "Document ID" -> <<"D", "o", "c", "u", "m", "e", "n", "t", " ", "I", "D">>
      [] field = "Source URL" -> <<"S", "o", "u", "r", "c", "e", " ", "U", "R", "L">>

\* the normalized values of the given fields that are not empty, each
\* behind its field name when labelled
RECURSIVE parts_of(_, _, _)
parts_of(row_data, fields, labelled) ==
    IF fields = <<>> THEN <<>>
    ELSE IF normalize_text(row_data[Head(fields)]) = <<>>
    THEN parts_of(row_data, Tail(fields), labelled)
    ELSE << IF labelled
            THEN FieldText(Head(fields)) \o <<":">> \o normalize_text(row_data[Head(fields)])
            ELSE normalize_text(row_data[Head(fields)]) >>
         \o parts_of(row_data, Tail(fields), labelled)

\* None is the empty sequence
generate_record_key(row_data) == join(parts_of(row_data, DUPLICATE_CHECK_FIELDS, TRUE))
\* md5 is taken to be free of collisions; None is the empty sequence
generate_content_hash(row_data) ==
    IF parts_of(row_data, CONTENT_FIELDS_FOR_HASH, FALSE) = <<>> THEN <<>>
    ELSE <<"md5">> \o join(sorted(parts_of(row_data, CONTENT_FIELDS_FOR_HASH, FALSE)))

(***************************************************************************)
(* fuzz.ratio(s1, s2) of fuzzywuzzy with python-Levenshtein:               *)
(* int(round(100 * 2 * M / T)), M the length of a longest common           *)
(* subsequence and T the sum of the lengths; round is Python's, to the     *)
(* even neighbour on a tie.                                                *)
(***************************************************************************)
SetMax(S) == CHOOSE x \in S : \A y \in S : y <= x

\* one row of the table of the lengths of longest common subsequences:
\* prev[j + 1] is the length for the prefix before character c and the first
\* j characters of t
LcsRow(prev, c, t) ==
    [x \in 1..(Len(t) + 1) |->
        Max(prev[x], SetMax({0} \cup {prev[k] + 1 : k \in {k \in 1..(x - 1) : t[k] = c}}))]
RECURSIVE LcsRows(_, _, _)
LcsRows(prev, s, t) ==
    IF s = <<>> THEN prev[Len(t) + 1]
    ELSE LcsRows(LcsRow(prev, Head(s), t), Tail(s), t)
RECURSIVE common_prefix(_, _)
common_prefix(s, t) ==
    IF s # <<>> /\ t # <<>> /\ Head(s) = Head(t)
    THEN 1 + common_prefix(Tail(s), Tail(t)) ELSE 0
RECURSIVE common_suffix(_, _)
common_suffix(s, t) ==
    IF s # <<>> /\ t # <<>> /\ s[Len(s)] = t[Len(t)]
    THEN 1 + common_suffix(SubSeq(s, 1, Len(s) - 1), SubSeq(t, 1, Len(t) - 1)) ELSE 0
\* a common prefix and a common suffix are part of a longest common
\* subsequence
LCS(s, t) ==
    LET Core(u, v, q) ==
            q + LcsRows([j \in 1..(Len(v) - q + 1) |-> 0],
                        SubSeq(u, 1, Len(u) - q), SubSeq(v, 1, Len(v) - q))
        Rest(u, v) == Core(u, v, common_suffix(u, v))
        Cut(p) == p + Rest(SubSeq(s, p + 1, Len(s)), SubSeq(t, p + 1, Len(t)))
    IN Cut(common_prefix(s, t))

\* int(round(n / d)) for n >= 0, d > 0
round_div(n, d) ==
    IF 2 * (n % d) > d THEN (n \div d) + 1
    ELSE IF 2 * (n % d) < d THEN n \div d
    ELSE (n \div d) + ((n \div d) % 2)

ratio_of_first(s1, s2) ==
    IF s1 = s2 THEN 100
    ELSE IF s1 = <<>> \/ s2 = <<>> THEN 0
    ELSE round_div(100 * LCS(s1, s2), Len(s1))

ratio(s1, s2) ==
    IF s1 = s2 THEN 100
    ELSE IF s1 = <<>> \/ s2 = <<>> THEN 0
    ELSE round_div(200 * LCS(s1, s2), Len(s1) + Len(s2))

FUZZY_MATCH_THRESHOLD == 85
TITLE_SIMILARITY_THRESHOLD == 80
NoMatch == [is_dup |-> FALSE, match_type |-> "none", match_score |-> 0,
            matched_row_index |-> 0]
Match(type, score, idx) == [is_dup |-> TRUE, match_type |-> type, match_score |-> score,
                            matched_row_index |-> idx]

\* the first row at or after idx whose key (or hash) equals the new one
RECURSIVE first_equal(_, _, _, _, _)
first_equal(new, existing_data, idx, Of(_), type) ==
    IF idx > Len(existing_data) THEN NoMatch
    ELSE IF Of(existing_data[idx]) = new THEN Match(type, 100, idx)
    ELSE first_equal(new, existing_data, idx + 1, Of, type)

\* the loop of fuzzy_match and of title_similarity_match from row idx on,
\* best the best match so far
RECURSIVE best_similar(_, _, _, _, _, _, _)
best_similar(new, existing_data, idx, Of(_), threshold, type, best) ==
    LET Scored(score) ==
            IF score > best.match_score /\ score >= threshold
            THEN best_similar(new, existing_data, idx + 1, Of, threshold, type,
                              Match(type, score, idx))
            ELSE best_similar(new, existing_data, idx + 1, Of, threshold, type, best)
    IN IF idx > Len(existing_data) THEN best
       ELSE IF Of(existing_data[idx]) = <<>>
       THEN best_similar(new, existing_data, idx + 1, Of, threshold, type, best)
       ELSE Scored(ratio(new, Of(existing_data[idx])))

exact_match_after_first(new_row, existing_data) ==
    IF generate_record_key(new_row) = <<>> THEN NoMatch
    ELSE first_equal(generate_record_key(new_row), existing_data, 2,
                     generate_record_key, "exact")

exact_match(new_row, existing_data) ==
    IF generate_record_key(new_row) = <<>> THEN NoMatch
    ELSE first_equal(generate_record_key(new_row), existing_data, 1,
                     generate_record_key, "exact")

\* lines 111-143 with self.threshold = threshold
fuzzy_match_threshold(new_row, existing_data, threshold) ==
    IF generate_record_key(new_row) = <<>> THEN NoMatch
    ELSE best_similar(generate_record_key(new_row), existing_data, 1,
                      generate_record_key, threshold, "fuzzy", NoMatch)

\* the detector built with no threshold: line 41, threshold or FUZZY_MATCH_THRESHOLD
fuzzy_match(new_row, existing_data) ==
    fuzzy_match_threshold(new_row, existing_data, FUZZY_MATCH_THRESHOLD)

normalized_title(row) == normalize_text(row[title_field])

title_similarity_match(new_row, existing_data) ==
    IF normalized_title(new_row) = <<>> THEN NoMatch
    ELSE best_similar(normalized_title(new_row), existing_data, 1,
                      normalized_title, TITLE_SIMILARITY_THRESHOLD, "title_similarity",
                      NoMatch)

content_hash_match(new_row, existing_data) ==
    IF generate_content_hash(new_row) = <<>> THEN NoMatch
    ELSE first_equal(generate_content_hash(new_row), existing_data, 1,
                     generate_content_hash, "content_hash")

(***************************************************************************)
(* check_for_duplicate(new_row, existing_data), one call from its entry to *)
(* its return; the loop over the strategies of "multi" runs step by step.  *)
(***************************************************************************)
T_a == <<"a">>
IdTexts == {<<>>, T_a}
UrlTexts == {<<>>, T_a}
TitleTexts == {<<>>, <<"a", "a", "a", "a", "a">>, <<" ", "A", "a", "a", "a", "b", ".">>}
SummaryTexts == {<<>>, T_a}
TagTexts == {<<>>, <<"a", " ", " ", "b">>}
DetRows ==
    {("Document ID" :> i) @@ ("Source URL" :> u) @@ ("Document Title" :> t)
        @@ ("Summary" :> c) @@ ("Tags" :> g) :
        i \in IdTexts, u \in UrlTexts, t \in TitleTexts, c \in SummaryTexts, g \in TagTexts}
DetCorpora == UNION {[1..n -> DetRows] : n \in 0..MaxRows}
Methods == {"exact", "fuzzy", "hash", "multi"}

\* strategies of the "multi" method, lines 250-255
strategies_hash_before_title ==
    <<"exact_match", "fuzzy_match", "content_hash_match", "title_similarity_match">>
strategies == <<"exact_match", "fuzzy_match", "title_similarity_match", "content_hash_match">>

Strategy(name, new_row, existing_data) ==
    CASE name = "exact_match" -> exact_match(new_row, existing_data)
      [] name = "fuzzy_match" -> fuzzy_match(new_row, existing_data)
      [] name = "title_similarity_match" -> title_similarity_match(new_row, existing_data)
      [] name = "content_hash_match" -> content_hash_match(new_row, existing_data)

InitDet ==
    /\ mgr = "detector"
    /\ spreadsheets = <<>>
    /\ current_spreadsheet = 0
    /\ current_worksheet = NoneWs
    /\ sheet_registry = [sheets |-> <<>>, current_sheet_index |-> 0, total_rows_used |-> 0]
    /\ pc = "check_for_duplicate"
    /\ \E method \in Methods, new_row \in DetRows, existing_data \in DetCorpora :
          call = [op |-> "check_for_duplicate", method |-> method, new_row |-> new_row,
                  existing_data |-> existing_data, k |-> 1]
    /\ ret = NoRet
    /\ hist = <<>>
    /\ submitted = 0

DetReturn(info) ==
    /\ pc' = "done"
    /\ ret' = [op |-> "check_for_duplicate", info |-> info]

\* lines 222-246 and 267-269: an empty corpus, and the methods of one strategy
check_for_duplicate_single ==
    /\ pc = "check_for_duplicate"
    /\ call.existing_data = <<>> \/ call.method # "multi"
    /\ IF call.existing_data = <<>> THEN DetReturn(NoMatch) /\ hist' = hist
       ELSE IF call.method = "exact"
       THEN /\ DetReturn(exact_match(call.new_row, call.existing_data))
            /\ hist' = <<"exact_match">>
       ELSE IF call.method = "hash"
       THEN /\ DetReturn(content_hash_match(call.new_row, call.existing_data))
            /\ hist' = <<"content_hash_match">>
       ELSE IF fuzzy_match(call.new_row, call.existing_data).is_dup
       THEN /\ DetReturn(fuzzy_match(call.new_row, call.existing_data))
            /\ hist' = <<"fuzzy_match">>
       ELSE /\ DetReturn(title_similarity_match(call.new_row, call.existing_data))
            /\ hist' = <<"fuzzy_match", "title_similarity_match">>
    /\ UNCHANGED <<mgr, spreadsheets, current_spreadsheet, current_worksheet,
                   sheet_registry, call, submitted>>

\* lines 257-263: the next strategy of "multi" is tried
check_for_duplicate_try ==
    /\ pc = "check_for_duplicate"
    /\ call.existing_data # <<>> /\ call.method = "multi"
    /\ call.k <= Len(strategies)
    /\ hist' = Append(hist, strategies[call.k])
    /\ IF Strategy(strategies[call.k], call.new_row, call.existing_data).is_dup
       THEN /\ DetReturn(Strategy(strategies[call.k], call.new_row, call.existing_data))
            /\ call' = call
       ELSE /\ call' = [call EXCEPT !.k = @ + 1]
            /\ UNCHANGED <<pc, ret>>
    /\ UNCHANGED <<mgr, spreadsheets, current_spreadsheet, current_worksheet,
                   sheet_registry, submitted>>

\* line 265: no strategy of "multi" matched
check_for_duplicate_none ==
    /\ pc = "check_for_duplicate"
    /\ call.existing_data # <<>> /\ call.method = "multi"
    /\ call.k > Len(strategies)
    /\ DetReturn(NoMatch)
    /\ UNCHANGED <<mgr, spreadsheets, current_spreadsheet, current_worksheet,
                   sheet_registry, call, hist, submitted>>

NextDet ==
    \/ check_for_duplicate_single
    \/ check_for_duplicate_try
    \/ check_for_duplicate_none

SpecDet == InitDet /\ [][NextDet]_vars

MultiReturned == pc = "done" /\ call.method = "multi" /\ call.existing_data # <<>>
Positive(name) == Strategy(name, call.new_row, call.existing_data).is_dup

\* C8, as claimed: a candidate that matches by content hash and by title
\* similarity, and by neither the exact nor the fuzzy key, is reported as a
\* content_hash match.
C8_HashBeforeTitle ==
    (MultiReturned /\ Positive("content_hash_match") /\ Positive("title_similarity_match")
        /\ ~Positive("exact_match") /\ ~Positive("fuzzy_match"))
        => ret.info.match_type = "content_hash"

\* C8, amended: "multi" tries exact, fuzzy, title similarity, content hash in
\* this order and returns the first positive match: the strategies tried are
\* the ones of this order up to the first positive one, whose match is
\* returned, also when a later strategy scores higher.
C8_FirstMatch ==
    MultiReturned =>
        /\ \E n \in 0..4 :
              hist = SubSeq(<<"exact_match", "fuzzy_match", "title_similarity_match",
                              "content_hash_match">>, 1, n)
        /\ \A k \in 1..(Len(hist) - 1) : ~Positive(hist[k])
        /\ IF ret.info.is_dup
           THEN ret.info = Strategy(hist[Len(hist)], call.new_row, call.existing_data)
           ELSE Len(hist) = 4 /\ ~Positive(hist[4])
        /\ (Positive("content_hash_match") /\ Positive("title_similarity_match")
               /\ ~Positive("exact_match") /\ ~Positive("fuzzy_match"))
              => ret.info.match_type = "title_similarity"
C8_Witness ==
    /\ MultiReturned
    /\ Positive("content_hash_match") /\ Positive("title_similarity_match")
    /\ ~Positive("exact_match") /\ ~Positive("fuzzy_match")
    /\ ret.info.match_type = "title_similarity" /\ ret.info.match_score < 100

(***************************************************************************)
(* advanced_duplicate_detector.py: AdvancedDuplicateDetector.              *)
(* A file is a record of the metadata fields the detector reads.  name is  *)
(* a text or None; size is the decimal string of a byte count, written as  *)
(* an integer literal or with a fraction part ".0"; md5Checksum is a text  *)
(* (empty when the file has no checksum) or a value that is not a string;  *)
(* thumbnail is the perceptual hash string of the downloaded thumbnail,    *)
(* empty when the file has no thumbnailLink or the download fails (lines   *)
(* 216-241; the four hash algorithms give the same string in the model).   *)
(* A dict is the sequence of its items in insertion order.                 *)
(***************************************************************************)
MaxFiles == 3
min_size == 104858
MB == 1048576

config ==
    [name_similarity_threshold |-> 80, fuzzy_match_threshold |-> 85,
     image_hash_threshold |-> 5, enable_image_analysis |-> TRUE]

NameNone == [none |-> TRUE, text |-> <<>>]
Name(t) == [none |-> FALSE, text |-> t]
Size(b, literal) == [bytes |-> b, int_literal |-> literal]
HashText(t) == [str |-> TRUE, v |-> t]
HashNumber == [str |-> FALSE, v |-> <<>>]
Truthy(h) == ~h.str \/ h.v # <<>>

N_report == <<"a", "b", "c", "d", "e", "f", "g">>
N_Report2 == <<"A", "b", "c", "d", "e", "f", "h">>
H_1 == <<"a", "a", "a", "a", "a", "a", "a", "a", "1">>
H_2 == <<"a", "a", "a", "a", "a", "a", "a", "a", "2">>
P_1 == <<"0", "0", "0", "0", "0", "0">>
P_2 == <<"0", "0", "0", "0", "1", "1">>

FileShapes ==
    {[file_category |-> "other", md5Checksum |-> HashText(H_1), name |-> Name(N_report),
      size |-> Size(2097152, TRUE), thumbnail |-> <<>>],
     [file_category |-> "other", md5Checksum |-> HashText(H_1), name |-> NameNone,
      size |-> Size(2097152, TRUE), thumbnail |-> <<>>],
     [file_category |-> "other", md5Checksum |-> HashText(H_2), name |-> Name(N_Report2),
      size |-> Size(2097152, FALSE), thumbnail |-> <<>>],
     [file_category |-> "other", md5Checksum |-> HashText(<<>>), name |-> Name(<<>>),
      size |-> Size(2097152, FALSE), thumbnail |-> <<>>],
     [file_category |-> "other", md5Checksum |-> HashNumber, name |-> Name(N_report),
      size |-> Size(3145728, TRUE), thumbnail |-> <<>>],
     [file_category |-> "other", md5Checksum |-> HashText(H_1), name |-> Name(N_report),
      size |-> Size(50000, TRUE), thumbnail |-> <<>>],
     [file_category |-> "image", md5Checksum |-> HashText(H_1), name |-> Name(N_report),
      size |-> Size(2097152, TRUE), thumbnail |-> P_1],
     [file_category |-> "image", md5Checksum |-> HashText(<<>>), name |-> Name(N_Report2),
      size |-> Size(3145728, TRUE), thumbnail |-> P_2],
     [file_category |-> "image", md5Checksum |-> HashText(H_2), name |-> NameNone,
      size |-> Size(3145728, TRUE), thumbnail |-> <<>>]}

WithId(shape, i) ==
    [id |-> i, file_category |-> shape.file_category, md5Checksum |-> shape.md5Checksum,
     name |-> shape.name, size |-> shape.size, thumbnail |-> shape.thumbnail]
FileLists ==
    UNION {{[i \in 1..n |-> WithId(shapes[i], i)] : shapes \in [1..n -> FileShapes]} :
              n \in 1..MaxFiles}

\* the items of a dict, d[key] = value and d.update(e)
SetItem(d, key, value) ==
    IF \E i \in 1..Len(d) : d[i].key = key
    THEN [i \in 1..Len(d) |-> IF d[i].key = key THEN [key |-> key, value |-> value] ELSE d[i]]
    ELSE Append(d, [key |-> key, value |-> value])
RECURSIVE update(_, _)
update(d, e) ==
    IF e = <<>> THEN d ELSE update(SetItem(d, e[1].key, e[1].value), Tail(e))

\* the keys of a defaultdict(list) in the order they were first inserted
RECURSIVE FirstSeen(_)
FirstSeen(keys) ==
    IF keys = <<>> THEN <<>>
    ELSE <<keys[1]>> \o SelectSeq(FirstSeen(Tail(keys)), LAMBDA k : k # keys[1])
\* the elements of a list at the positions J, in list order
Pick(files, J) ==
    LET At(idx) == [n \in 1..Len(idx) |-> files[idx[n]]]
    IN At(SelectSeq([k \in 1..Len(files) |-> k], LAMBDA k : k \in J))

RECURSIVE SumSeq(_)
SumSeq(s) == IF s = <<>> THEN 0 ELSE s[1] + SumSeq(Tail(s))
total_size(group) == SumSeq([i \in 1..Len(group) |-> group[i].size.bytes])

\* a duplicate group; potential_savings_mb is held in bytes (the code divides
\* the same product by 1024 * 1024), has_savings tells the key is present
Group(type, confidence, files, method, savings, has_savings) ==
    [type |-> type, confidence |-> confidence, files |-> files,
     duplicate_count |-> Len(files), detection_method |-> method,
     potential_savings_mb |-> savings, has_savings |-> has_savings,
     category |-> "", categories |-> {}]

Found(duplicates) == [raised |-> FALSE, duplicates |-> duplicates]
Raised == [raised |-> TRUE, duplicates |-> <<>>]

\* lines 375-406; the files of the model carry md5Checksum as their one hash
\* field, and content_hash[:8] raises TypeError on a value that is no string
Hashed(files) == SelectSeq(files, LAMBDA f : Truthy(f.md5Checksum))
HashKeys(files) == FirstSeen([i \in 1..Len(Hashed(files)) |-> Hashed(files)[i].md5Checksum])
HashGroup(files, h) == SelectSeq(Hashed(files), LAMBDA f : f.md5Checksum = h)
RECURSIVE hash_duplicates(_, _, _)
hash_duplicates(files, keys, duplicates) ==
    IF keys = <<>> THEN Found(duplicates)
    ELSE IF Len(HashGroup(files, keys[1])) <= 1
    THEN hash_duplicates(files, Tail(keys), duplicates)
    ELSE IF ~keys[1].str THEN Raised
    ELSE hash_duplicates(files, Tail(keys),
            SetItem(duplicates, <<"hash">> \o SubSeq(keys[1].v, 1, Min(8, Len(keys[1].v))),
                    Group("exact_content", "high", HashGroup(files, keys[1]), "content_hash",
                          total_size(HashGroup(files, keys[1]))
                              * (Len(HashGroup(files, keys[1])) - 1), TRUE)))
find_exact_hash_matches(files) == hash_duplicates(files, HashKeys(files), <<>>)

\* lines 408-456, with fuzzywuzzy installed; None.lower() raises AttributeError
lower_text(t) == [i \in 1..Len(t) |-> lower(t[i])]
Later(files, i, processed) == {j \in (i + 1)..Len(files) : files[j].id \notin processed}
Similar(files, i, threshold, processed) ==
    {j \in Later(files, i, processed) :
        /\ files[j].name.text # <<>>
        /\ ratio(lower_text(files[i].name.text), lower_text(files[j].name.text)) >= threshold}
Ids(files, J) == {files[j].id : j \in J}
RECURSIVE fuzzy_from(_, _, _, _, _)
fuzzy_from(files, i, threshold, processed, duplicates) ==
    IF i > Len(files) THEN Found(duplicates)
    ELSE IF files[i].id \in processed
    THEN fuzzy_from(files, i + 1, threshold, processed, duplicates)
    ELSE IF files[i].name.none THEN Raised
    ELSE IF files[i].name.text = <<>>
    THEN fuzzy_from(files, i + 1, threshold, processed, duplicates)
    ELSE IF \E j \in Later(files, i, processed) : files[j].name.none THEN Raised
    ELSE LET Step(J) ==
                 fuzzy_from(files, i + 1, threshold, processed \cup Ids(files, J \cup {i}),
                    IF J = {} THEN duplicates
                    ELSE SetItem(duplicates,
                            <<"fuzzy", "md5">> \o lower_text(files[i].name.text),
                            Group("fuzzy_name", "medium", Pick(files, J \cup {i}),
                                  "fuzzy_name_matching",
                                  total_size(Pick(files, J \cup {i})) * Cardinality(J), TRUE)))
         IN Step(Similar(files, i, threshold, processed))
find_fuzzy_name_matches(files, threshold) == fuzzy_from(files, 1, threshold, {}, <<>>)

\* lines 458-489; int(size) raises ValueError on a size with a fraction part
SizeKept(files) == SelectSeq(files, LAMBDA f : ~(f.size.bytes = 0 /\ f.size.int_literal))
SizeKeys(files) == FirstSeen([i \in 1..Len(SizeKept(files)) |-> SizeKept(files)[i].size])
SizeGroup(files, size) == SelectSeq(SizeKept(files), LAMBDA f : f.size = size)
SizeText(size) == <<ToString(size.bytes), IF size.int_literal THEN "" ELSE ".0">>
RECURSIVE size_duplicates(_, _, _, _)
size_duplicates(files, keys, strict, duplicates) ==
    IF keys = <<>> THEN Found(duplicates)
    ELSE IF Len(SizeGroup(files, keys[1])) <= 1
    THEN size_duplicates(files, Tail(keys), strict, duplicates)
    ELSE IF ~keys[1].int_literal THEN Raised
    ELSE IF keys[1].bytes <= MB
    THEN size_duplicates(files, Tail(keys), strict, duplicates)
    ELSE size_duplicates(files, Tail(keys), strict,
            SetItem(duplicates, <<"size">> \o SizeText(keys[1]),
                    Group("exact_size", IF strict THEN "medium" ELSE "low",
                          SizeGroup(files, keys[1]), "size_matching",
                          keys[1].bytes * Len(SizeGroup(files, keys[1]))
                              * (Len(SizeGroup(files, keys[1])) - 1), TRUE)))
find_size_based_matches(files, strict) == size_duplicates(files, SizeKeys(files), strict, <<>>)

\* lines 208-283; fails: an error leaves the function
hamming(a, b) == Cardinality({i \in 1..Len(a) : a[i] # b[i]})
hash_distances(f1, f2) == [t \in 1..4 |-> hamming(f1.thumbnail, f2.thumbnail)]
Close(image_hashes, i, processed) ==
    {j \in 1..Len(image_hashes) :
        /\ j # i /\ image_hashes[j].id \notin processed
        /\ SumSeq(hash_distances(image_hashes[i], image_hashes[j]))
              <= config.image_hash_threshold * Len(hash_distances(image_hashes[i], image_hashes[j]))}
RECURSIVE perceptual_from(_, _, _, _)
perceptual_from(image_hashes, i, processed, duplicates) ==
    IF i > Len(image_hashes) THEN Found(duplicates)
    ELSE IF image_hashes[i].id \in processed
    THEN perceptual_from(image_hashes, i + 1, processed, duplicates)
    ELSE LET Step(J) ==
                 perceptual_from(image_hashes, i + 1, processed \cup Ids(image_hashes, J \cup {i}),
                    IF J = {} THEN duplicates
                    ELSE SetItem(duplicates,
                            <<"perceptual", "md5", ToString(image_hashes[i].id)>>,
                            Group("perceptual_image", "high",
                                  <<image_hashes[i]>> \o Pick(image_hashes, J),
                                  "perceptual_hashing", 0, FALSE)))
         IN Step(Close(image_hashes, i, processed))
find_perceptual_image_duplicates(files, fails) ==
    IF fails THEN Raised
    ELSE perceptual_from(SelectSeq(files, LAMBDA f : f.thumbnail # <<>>), 1, {}, <<>>)

\* lines 355-373: an error of a strategy leaves the handler
detect_generic_duplicates(files) ==
    LET AfterHash(h) ==
            LET AfterName(n) ==
                    LET AfterSize(s) ==
                            IF s.raised THEN Raised
                            ELSE Found(update(update(h.duplicates, n.duplicates), s.duplicates))
                    IN IF n.raised THEN Raised
                       ELSE AfterSize(find_size_based_matches(files, FALSE))
            IN IF h.raised THEN Raised
               ELSE AfterName(find_fuzzy_name_matches(files, config.fuzzy_match_threshold))
    IN AfterHash(find_exact_hash_matches(files))

\* lines 185-206: the perceptual strategy runs in a try of its own
detect_image_duplicates(files, fails) ==
    IF ~config.enable_image_analysis THEN detect_generic_duplicates(files)
    ELSE LET AfterHash(h) ==
                 LET AfterPerceptual(p) ==
                         IF p.raised THEN Found(h.duplicates)
                         ELSE Found(update(h.duplicates, p.duplicates))
                 IN IF h.raised THEN Raised
                    ELSE AfterPerceptual(find_perceptual_image_duplicates(files, fails))
         IN AfterHash(find_exact_hash_matches(files))

\* lines 61-68 and 123: the handler of a category
file_type_handler(category, files, fails) ==
    IF category = "image" THEN detect_image_duplicates(files, fails)
    ELSE detect_generic_duplicates(files)

\* lines 175-183
Categories(files) == FirstSeen([i \in 1..Len(files) |-> files[i].file_category])
group_files_by_category(files) ==
    [k \in 1..Len(Categories(files)) |->
        [category |-> Categories(files)[k],
         files |-> SelectSeq(files, LAMBDA f : f.file_category = Categories(files)[k])]]

\* lines 561-583
RECURSIVE Concat(_)
Concat(file_groups) ==
    IF file_groups = <<>> THEN <<>> ELSE file_groups[1].files \o Concat(Tail(file_groups))
CategoriesOf(group) == {group.files[i].file_category : i \in 1..Len(group.files)}
RECURSIVE cross_filter(_, _)
cross_filter(hashed_groups, duplicates) ==
    IF hashed_groups = <<>> THEN duplicates
    ELSE cross_filter(Tail(hashed_groups),
            IF Cardinality(CategoriesOf(hashed_groups[1].value)) > 1
            THEN SetItem(duplicates, <<"cross">> \o hashed_groups[1].key,
                         [hashed_groups[1].value EXCEPT
                             !.type = "cross_category",
                             !.categories = CategoriesOf(hashed_groups[1].value)])
            ELSE duplicates)
detect_cross_category_duplicates(file_groups) ==
    LET Filtered(h) == IF h.raised THEN Raised ELSE Found(cross_filter(h.duplicates, <<>>))
    IN Filtered(find_exact_hash_matches(Concat(file_groups)))

\* lines 127-133 and 144-145: the groups of one pass enter all_duplicates
RECURSIVE merge(_, _, _, _)
merge(all_duplicates, prefix, category, found) ==
    IF found = <<>> THEN all_duplicates
    ELSE merge(SetItem(all_duplicates, <<prefix>> \o found[1].key,
                       IF category = "" THEN found[1].value
                       ELSE [found[1].value EXCEPT !.category = category]),
               prefix, category, Tail(found))

\* lines 585-616; the score is held in bytes as potential_savings_mb is
confidence_scores(confidence) ==
    CASE confidence = "high" -> 3 [] confidence = "medium" -> 2 [] OTHER -> 1
score_without_count(group_data) ==
    confidence_scores(group_data.confidence) * 100 * MB
        + Min(group_data.potential_savings_mb, 1000 * MB)

score(group_data) ==
    confidence_scores(group_data.confidence) * 100 * MB
        + Min(group_data.potential_savings_mb, 1000 * MB)
        + group_data.duplicate_count * 10 * MB
ranked_group(item) ==
    [group_id |-> item.key, score |-> score(item.value),
     confidence |-> item.value.confidence, duplicate_count |-> item.value.duplicate_count,
     potential_savings_mb |-> item.value.potential_savings_mb, type |-> item.value.type,
     files |-> item.value.files]
\* sort_by_score putting a group before the groups of equal score
RECURSIVE sort_by_score_unstable(_, _)
sort_by_score_unstable(ranked_groups, result) ==
    IF ranked_groups = <<>> THEN result
    ELSE sort_by_score_unstable(Tail(ranked_groups),
            SelectSeq(result, LAMBDA g : g.score > ranked_groups[1].score)
                \o <<ranked_groups[1]>>
                \o SelectSeq(result, LAMBDA g : g.score <= ranked_groups[1].score))

RECURSIVE sort_by_score(_, _)
sort_by_score(ranked_groups, result) ==
    IF ranked_groups = <<>> THEN result
    ELSE sort_by_score(Tail(ranked_groups),
            SelectSeq(result, LAMBDA g : g.score >= ranked_groups[1].score)
                \o <<ranked_groups[1]>>
                \o SelectSeq(result, LAMBDA g : g.score < ranked_groups[1].score))
rank_duplicate_groups(duplicates) ==
    sort_by_score([i \in 1..Len(duplicates) |-> ranked_group(duplicates[i])], <<>>)

\* lines 147-154
Values(duplicates, field) == [i \in 1..Len(duplicates) |-> duplicates[i].value[field]]
statistics(detection_stats, all_duplicates) ==
    [total_files_analyzed |-> detection_stats.total_files_analyzed,
     files_by_category |-> detection_stats.files_by_category,
     total_duplicate_groups |-> Len(all_duplicates),
     total_duplicates_found |-> SumSeq(Values(all_duplicates, "duplicate_count")),
     potential_space_saved_mb |-> SumSeq(Values(all_duplicates, "potential_savings_mb"))]

\* lines 618-631, the summary of the report
WithConfidence(duplicates, confidence) ==
    Len(SelectSeq(duplicates, LAMBDA item : item.value.confidence = confidence))
generate_analysis_report(duplicates, stats) ==
    [summary |->
        [total_duplicate_groups |-> Len(duplicates),
         high_confidence_groups |-> WithConfidence(duplicates, "high"),
         medium_confidence_groups |-> WithConfidence(duplicates, "medium"),
         low_confidence_groups |-> WithConfidence(duplicates, "low"),
         total_potential_savings_mb |-> SumSeq(Values(duplicates, "potential_savings_mb"))],
     statistics |-> stats]

(***************************************************************************)
(* detect_all_duplicates(files), one call from its entry to its return or  *)
(* to the error that leaves it; the loop over the categories runs step by  *)
(* step.  call.perceptual_fails tells whether the perceptual image         *)
(* strategy ends in an error in this call.                                 *)
(***************************************************************************)
InitAdv ==
    /\ mgr = "advanced"
    /\ spreadsheets = <<>>
    /\ current_spreadsheet = 0
    /\ current_worksheet = NoneWs
    /\ sheet_registry = [sheets |-> <<>>, current_sheet_index |-> 0, total_rows_used |-> 0]
    /\ pc = "detect_all_duplicates"
    /\ \E files \in FileLists, fails \in BOOLEAN :
          call = [op |-> "detect_all_duplicates", files |-> files, perceptual_fails |-> fails]
    /\ ret = NoRet
    /\ hist = <<>>
    /\ submitted = 0

\* lines 97-113: the size filter, the grouping and the empty result
filter_and_group(files) ==
    LET Start(filtered_files) ==
            [file_groups |-> group_files_by_category(filtered_files),
             all_duplicates |-> <<>>,
             detection_stats |->
                 [total_files_analyzed |-> Len(filtered_files),
                  files_by_category |->
                      [k \in 1..Len(Categories(filtered_files)) |->
                          Len(group_files_by_category(filtered_files)[k].files)]],
             i |-> 1, errors |-> <<>>]
    IN Start(SelectSeq(files, LAMBDA f : f.size.bytes >= min_size))

\* lines 116-140: one category; an error of its handler is logged and the
\* loop continues
detect_in_category(h, fails) ==
    LET Handled(category, category_duplicates) ==
            IF category_duplicates.raised
            THEN [h EXCEPT !.i = @ + 1, !.errors = Append(@, category)]
            ELSE [h EXCEPT !.i = @ + 1,
                           !.all_duplicates =
                               merge(@, category, category, category_duplicates.duplicates)]
    IN Handled(h.file_groups[h.i].category,
               file_type_handler(h.file_groups[h.i].category, h.file_groups[h.i].files, fails))

\* lines 142-173: the cross-category pass, outside every try, then the
\* statistics, the ranking and the report
cross_and_report(h) ==
    LET Result(all_duplicates) ==
            [op |-> "detect_all_duplicates", raised |-> FALSE,
             duplicates |-> all_duplicates,
             ranked_duplicates |-> rank_duplicate_groups(all_duplicates),
             statistics |-> statistics(h.detection_stats, all_duplicates),
             analysis_report |->
                 generate_analysis_report(all_duplicates,
                     statistics(h.detection_stats, all_duplicates))]
        Finish(cross_category_duplicates) ==
            IF cross_category_duplicates.raised
            THEN [op |-> "detect_all_duplicates", raised |-> TRUE]
            ELSE Result(merge(h.all_duplicates, "cross", "",
                              cross_category_duplicates.duplicates))
    IN Finish(detect_cross_category_duplicates(h.file_groups))

detect_all_duplicates ==
    /\ pc = "detect_all_duplicates"
    /\ pc' = "category"
    /\ hist' = filter_and_group(call.files)
    /\ UNCHANGED <<mgr, spreadsheets, current_spreadsheet, current_worksheet,
                   sheet_registry, call, ret, submitted>>

detect_category ==
    /\ pc = "category"
    /\ hist.i <= Len(hist.file_groups)
    /\ hist' = detect_in_category(hist, call.perceptual_fails)
    /\ UNCHANGED <<mgr, spreadsheets, current_spreadsheet, current_worksheet,
                   sheet_registry, pc, call, ret, submitted>>

detect_cross_category ==
    /\ pc = "category"
    /\ hist.i > Len(hist.file_groups)
    /\ ret' = cross_and_report(hist)
    /\ pc' = IF ret'.raised THEN "raised" ELSE "returned"
    /\ UNCHANGED <<mgr, spreadsheets, current_spreadsheet, current_worksheet,
                   sheet_registry, call, hist, submitted>>

NextAdv ==
    \/ detect_all_duplicates
    \/ detect_category
    \/ detect_cross_category

SpecAdv == InitAdv /\ [][NextAdv]_vars

\* the whole call
RECURSIVE detect_categories(_, _)
detect_categories(h, fails) ==
    IF h.i > Len(h.file_groups) THEN h
    ELSE detect_categories(detect_in_category(h, fails), fails)
detect_all_duplicates_call(files, fails) ==
    cross_and_report(detect_categories(filter_and_group(files), fails))

\* the outcome of each strategy of the handler of a category, run alone
category_strategies(category) ==
    IF category = "image" THEN {"exact_hash", "perceptual_image"}
    ELSE {"exact_hash", "fuzzy_name", "size"}
run_strategy(name, files, fails) ==
    CASE name = "exact_hash" -> find_exact_hash_matches(files)
      [] name = "fuzzy_name" -> find_fuzzy_name_matches(files, config.fuzzy_match_threshold)
      [] name = "size" -> find_size_based_matches(files, FALSE)
      [] name = "perceptual_image" -> find_perceptual_image_duplicates(files, fails)
StrategyRaises(fg, name) == run_strategy(name, fg.files, call.perceptual_fails).raised
InResult(category, item) ==
    \E k \in 1..Len(ret.duplicates) :
        /\ ret.duplicates[k].key = <<category>> \o item.key
        /\ ret.duplicates[k].value.files = item.value.files
Ended == pc \in {"returned", "raised"}
SomeStrategyRaises ==
    \E g \in 1..Len(hist.file_groups) :
        \E name \in category_strategies(hist.file_groups[g].category) :
            StrategyRaises(hist.file_groups[g], name)

\* C9: when a match strategy raises while a category is processed, the call
\* still returns normally, and every group found by a strategy that did not
\* raise, in that category and in every other one, is in the result.
C9_StrategySkipped ==
    (Ended /\ SomeStrategyRaises) =>
        /\ pc = "returned"
        /\ \A g \in 1..Len(hist.file_groups) :
              \A name \in category_strategies(hist.file_groups[g].category) :
                  ~StrategyRaises(hist.file_groups[g], name) =>
                      \A k \in 1..Len(run_strategy(name, hist.file_groups[g].files,
                                                   call.perceptual_fails).duplicates) :
                          InResult(hist.file_groups[g].category,
                                   run_strategy(name, hist.file_groups[g].files,
                                                call.perceptual_fails).duplicates[k])

(***************************************************************************)
(* comprehensive_drive_manager.py: run_comprehensive_analysis, one run     *)
(* from its entry to its return or to the error that leaves it.  The       *)
(* components are the ones built in __init__ (lines 44-54): the scanner    *)
(* of drive_metadata_manager.py, AdvancedDuplicateDetector, and a fresh    *)
(* AutoScalingSheetManager; the detector runs with the thresholds of       *)
(* config.  call.drive is the list of files the Drive                      *)
(* API holds, already in the form _enhance_file_metadata gives them;       *)
(* call.page_token is the number of files the pages read so far held; a    *)
(* page of the API holds at most PageSize files.  hist.log lists the calls *)
(* the run made to its components, one entry per step;                     *)
(* hist.duplicate_rows lists the rows written to the Duplicate_Analysis    *)
(* worksheets, as pairs of the sheet and the group.  The row of a file in  *)
(* the main worksheet is written as the row of its id.                     *)
(***************************************************************************)
MaxScan == 3
PageSize == 2
batch_size == 1000

DriveLists ==
    {<<>>} \cup
    UNION {{[i \in 1..n |-> WithId(shapes[i], i)] :
               shapes \in [1..n -> {s \in FileShapes : s.md5Checksum # HashText(H_2)}]} :
              n \in 1..MaxScan}
\* max_files, 0 for None
MaxFilesArgs == 0..2

InitRun ==
    /\ mgr = "orchestrator"
    /\ spreadsheets = <<>>
    /\ current_spreadsheet = 0
    /\ current_worksheet = NoneWs
    /\ sheet_registry = [sheets |-> <<>>, current_sheet_index |-> 0, total_rows_used |-> 0]
    /\ pc = "scan_all_drive_files"
    /\ \E drive \in DriveLists, max_files \in MaxFilesArgs :
          call = [op |-> "run_comprehensive_analysis", max_files |-> max_files,
                  drive |-> drive, page_token |-> 0, all_files |-> <<>>]
    /\ ret = NoRet
    /\ hist = [log |-> <<>>, phases |-> <<>>, scan_failed |-> FALSE, files |-> <<>>,
               duplicate_analysis |-> [op |-> "none"], i |-> 0, total_added |-> 0,
               duplicate_rows |-> <<>>, wrote |-> 0, tried |-> 0, faults |-> {},
               late |-> FALSE]
    /\ submitted = 0

\* lines 257-261: the error is logged and raised again
RunRaises(h) ==
    /\ pc' = "raised"
    /\ hist' = h
    /\ ret' = [op |-> "run_comprehensive_analysis", raised |-> TRUE, status |-> "failed",
               error |-> h.log[Len(h.log)], phases |-> h.phases]

Logged(h, name) == [h EXCEPT !.log = Append(@, name)]

\* scan_all_drive_files, lines 86-135, one page: the files of the page are
\* appended up to max_files; lines 142-162 when the scan returns
Page(drive, page_token) == SubSeq(drive, page_token + 1, Min(page_token + PageSize, Len(drive)))
Taken(all_files, page, max_files) ==
    IF max_files # 0 /\ Len(all_files) + Len(page) >= max_files
    THEN all_files \o SubSeq(page, 1, max_files - Len(all_files))
    ELSE all_files \o page
\* run_scan_page going on to the detection when the scan fails
run_scan_page_goes_on(fail) ==
    /\ pc = "scan_all_drive_files"
    /\ IF fail
       THEN /\ pc' = "detect_all_duplicates"
            /\ hist' = [Logged(hist, "scan_all_drive_files") EXCEPT
                           !.scan_failed = TRUE, !.files = call.all_files]
            /\ UNCHANGED <<call, ret>>
       ELSE LET Read(page, all_files) ==
                    IF \/ page # <<>>
                          /\ call.max_files # 0 /\ Len(all_files) >= call.max_files
                       \/ call.page_token + PageSize >= Len(call.drive)
                    THEN /\ pc' = "detect_all_duplicates"
                         /\ call' = [call EXCEPT !.all_files = all_files]
                         /\ hist' = [Logged(hist, "scan_all_drive_files") EXCEPT
                                        !.files = all_files,
                                        !.phases = Append(@, "metadata_extraction")]
                    ELSE /\ pc' = pc
                         /\ call' = [call EXCEPT !.all_files = all_files,
                                                 !.page_token = @ + PageSize]
                         /\ hist' = Logged(hist, "scan_all_drive_files")
            IN /\ Read(Page(call.drive, call.page_token),
                       Taken(call.all_files, Page(call.drive, call.page_token),
                             call.max_files))
               /\ ret' = ret
    /\ UNCHANGED <<mgr, spreadsheets, current_spreadsheet, current_worksheet,
                   sheet_registry, submitted>>

run_scan_page(fail) ==
    /\ pc = "scan_all_drive_files"
    /\ IF fail
       THEN /\ RunRaises([Logged(hist, "scan_all_drive_files") EXCEPT !.scan_failed = TRUE])
            /\ call' = call
       ELSE LET Read(page, all_files) ==
                    IF \/ page # <<>>
                          /\ call.max_files # 0 /\ Len(all_files) >= call.max_files
                       \/ call.page_token + PageSize >= Len(call.drive)
                    THEN /\ pc' = "detect_all_duplicates"
                         /\ call' = [call EXCEPT !.all_files = all_files]
                         /\ hist' = [Logged(hist, "scan_all_drive_files") EXCEPT
                                        !.files = all_files,
                                        !.phases = Append(@, "metadata_extraction")]
                    ELSE /\ pc' = pc
                         /\ call' = [call EXCEPT !.all_files = all_files,
                                                 !.page_token = @ + PageSize]
                         /\ hist' = Logged(hist, "scan_all_drive_files")
            IN /\ Read(Page(call.drive, call.page_token),
                       Taken(call.all_files, Page(call.drive, call.page_token),
                             call.max_files))
               /\ ret' = ret
    /\ UNCHANGED <<mgr, spreadsheets, current_spreadsheet, current_worksheet,
                   sheet_registry, submitted>>

\* lines 164-182
run_detection(fails) ==
    /\ pc = "detect_all_duplicates"
    /\ LET Detected(h, duplicate_analysis) ==
               IF duplicate_analysis.raised THEN RunRaises(h)
               ELSE /\ pc' = "add_file_data"
                    /\ hist' = [h EXCEPT !.duplicate_analysis = duplicate_analysis,
                                         !.phases = Append(@, "duplicate_detection")]
                    /\ ret' = ret
       IN Detected(Logged(hist, "detect_all_duplicates"),
                   detect_all_duplicates_call(hist.files, fails))
    /\ UNCHANGED <<mgr, spreadsheets, current_spreadsheet, current_worksheet,
                   sheet_registry, call, submitted>>

\* lines 184-192 with add_file_data of auto_scaling_sheets.py, lines 263-348,
\* one batch
FileIds(files) == [k \in 1..Len(files) |-> files[k].id]
run_add_file_data(out, wfail) ==
    /\ pc = "add_file_data"
    /\ LET Done(h, last, b) ==
               IF b.exc THEN RunRaises(HistOf(b.m, h)) /\ Store(b.m)
               ELSE IF last
               THEN /\ Store([b.m EXCEPT !.reg.total_rows_used = @ + b.total_added])
                    /\ hist' = [HistOf(b.m, h) EXCEPT !.i = 0, !.total_added = b.total_added]
                    /\ pc' = "add_duplicate_analysis"
                    /\ ret' = ret
               ELSE /\ Store(b.m)
                    /\ hist' = [HistOf(b.m, h) EXCEPT !.i = @ + batch_size,
                                                     !.total_added = b.total_added]
                    /\ UNCHANGED <<pc, ret>>
       IN IF hist.files = <<>>
          THEN /\ hist' = Logged(hist, "add_file_data")
               /\ pc' = "add_duplicate_analysis"
               /\ UNCHANGED <<spreadsheets, current_spreadsheet, current_worksheet,
                              sheet_registry, ret>>
          ELSE Done(Logged(hist, "add_file_data"),
                    hist.i + batch_size >= Len(hist.files),
                    add_file_data_body(Mgr(hist), hist.total_added,
                        ChunkAt(FileIds(hist.files), hist.i, batch_size), out, wfail))
    /\ UNCHANGED <<mgr, call, submitted>>

\* lines 194-215 with add_duplicate_analysis of auto_scaling_sheets.py,
\* lines 350-411, one group: get_current_sheet is called outside the try, a
\* failed write of the row is logged and the loop continues
run_add_duplicate_analysis(out, wfail) ==
    /\ pc = "add_duplicate_analysis"
    /\ LET duplicates == hist.duplicate_analysis.duplicates
           Next_(h) ==
               IF h.i >= Len(duplicates)
               THEN /\ hist' = [h EXCEPT !.phases = Append(@, "sheets_population")]
                    /\ pc' = "generate_comprehensive_summary"
               ELSE /\ hist' = h
                    /\ pc' = pc
           Got(h, g) ==
               IF g.exc THEN RunRaises(HistOf(g.m, h)) /\ Store(g.m)
               ELSE /\ Store(g.m)
                    /\ ret' = ret
                    /\ Next_([HistOf(g.m, h) EXCEPT
                                !.i = @ + 1,
                                !.faults = IF wfail THEN @ \cup {"write"} ELSE @,
                                !.duplicate_rows =
                                    IF wfail THEN @
                                    ELSE Append(@, <<g.m.reg.sheets[g.k].id,
                                                     duplicates[h.i + 1].key>>)])
       IN IF duplicates = <<>>
          THEN /\ Next_(Logged(hist, "add_duplicate_analysis"))
               /\ UNCHANGED <<spreadsheets, current_spreadsheet, current_worksheet,
                              sheet_registry, ret>>
          ELSE Got(Logged(hist, "add_duplicate_analysis"), get_current_sheet(Mgr(hist), out))
    /\ UNCHANGED <<mgr, call, submitted>>

\* lines 217-255 with _generate_comprehensive_summary, lines 263-369
run_report ==
    /\ pc = "generate_comprehensive_summary"
    /\ pc' = "returned"
    /\ hist' = [Logged(hist, "generate_comprehensive_summary") EXCEPT
                   !.phases = Append(@, "report_generation")]
    /\ ret' = [op |-> "run_comprehensive_analysis", raised |-> FALSE,
               status |-> "completed", error |-> "",
               phases |-> Append(hist.phases, "report_generation"),
               files |-> hist.files,
               duplicates |-> hist.duplicate_analysis,
               sheets_info |->
                   [rows_added |-> hist.total_added,
                    duplicate_groups_added |-> Len(hist.duplicate_rows),
                    registry |-> sheet_registry],
               summary |->
                   [total_files |-> Len(hist.files),
                    total_groups |->
                        hist.duplicate_analysis.statistics.total_duplicate_groups,
                    total_duplicates |->
                        hist.duplicate_analysis.statistics.total_duplicates_found,
                    total_sheets |-> Len(sheet_registry.sheets),
                    total_rows_used |-> sheet_registry.total_rows_used]]
    /\ UNCHANGED <<mgr, spreadsheets, current_spreadsheet, current_worksheet,
                   sheet_registry, call, submitted>>

NextRun ==
    \/ \E fail \in BOOLEAN : run_scan_page(fail)
    \/ \E fails \in BOOLEAN : run_detection(fails)
    \/ \E out \in AsmOutcomes, wfail \in BOOLEAN : run_add_file_data(out, wfail)
    \/ \E out \in AsmOutcomes, wfail \in BOOLEAN : run_add_duplicate_analysis(out, wfail)
    \/ run_report

SpecRun == InitRun /\ [][NextRun]_vars

PhaseCalls ==
    <<"scan_all_drive_files", "detect_all_duplicates", "add_file_data",
      "add_duplicate_analysis", "generate_comprehensive_summary">>
PhaseOf(name) == CHOOSE k \in 1..Len(PhaseCalls) : PhaseCalls[k] = name
Called(name) == \E k \in 1..Len(hist.log) : hist.log[k] = name

\* C10: the calls of a run are made in the order scan, duplicate detection,
\* partition writes (file rows, then duplicate rows), report, none of them
\* before the one before it has been made; a run returns only after all of
\* them; and when the scan fails the run ends with the error of the scan
\* raised to the caller, no detection made, no sheet created and no row
\* written.
C10_PhaseOrder ==
    /\ hist.log # <<>> => hist.log[1] = "scan_all_drive_files"
    /\ \A k \in 1..(Len(hist.log) - 1) :
          PhaseOf(hist.log[k + 1]) - PhaseOf(hist.log[k]) \in {0, 1}
    /\ pc = "returned" =>
          /\ \A k \in 1..Len(PhaseCalls) : Called(PhaseCalls[k])
          /\ ret.phases = <<"metadata_extraction", "duplicate_detection",
                            "sheets_population", "report_generation">>
    /\ hist.scan_failed =>
          /\ pc = "raised"
          /\ ret.raised /\ ret.status = "failed" /\ ret.error = "scan_all_drive_files"
          /\ ret.phases = <<>>
          /\ \A k \in 2..Len(PhaseCalls) : ~Called(PhaseCalls[k])
          /\ hist.duplicate_analysis = [op |-> "none"]
          /\ spreadsheets = <<>> /\ sheet_registry.sheets = <<>>
          /\ sheet_registry.total_rows_used = 0
          /\ hist.duplicate_rows = <<>> /\ hist.tried = 0 /\ hist.wrote = 0
C10_Witness ==
    /\ pc = "raised" /\ hist.scan_failed
    /\ Len(hist.log) = 2 /\ Len(call.all_files) = PageSize

\* ---------------------------------------------------------------------------
\* advanced_duplicate_detector.py: _find_exact_hash_matches called on its own
\* ---------------------------------------------------------------------------

MaxHashed == 4

\* files that differ in their content hash: two strings with the same first
\* eight characters, the empty string and a value that is no string
HashShapes ==
    {s \in FileShapes :
        /\ s.file_category = "other" /\ s.size.bytes > min_size
        /\ s.name # NameNone}
HashLists ==
    UNION {{[i \in 1..n |-> WithId(shapes[i], i)] : shapes \in [1..n -> HashShapes]} :
           n \in 1..MaxHashed}

InitHash ==
    /\ mgr = "exact_hash"
    /\ spreadsheets = <<>>
    /\ current_spreadsheet = 0
    /\ current_worksheet = NoneWs
    /\ sheet_registry = [sheets |-> <<>>, current_sheet_index |-> 0, total_rows_used |-> 0]
    /\ pc = "find_exact_hash_matches"
    /\ \E files \in HashLists : call = [op |-> "find_exact_hash_matches", files |-> files]
    /\ ret = NoRet
    /\ hist = <<>>
    /\ submitted = 0

find_exact_hash_matches_call ==
    /\ pc = "find_exact_hash_matches"
    /\ ret' = find_exact_hash_matches(call.files)
    /\ pc' = IF ret'.raised THEN "raised" ELSE "returned"
    /\ UNCHANGED <<mgr, spreadsheets, current_spreadsheet, current_worksheet,
                   sheet_registry, call, hist, submitted>>

NextHash == find_exact_hash_matches_call

SpecHash == InitHash /\ [][NextHash]_vars

\* the content hashes that two or more of the files share
SharedHashes(files) == {h \in {HashKeys(files)[i] : i \in 1..Len(HashKeys(files))} :
        Len(HashGroup(files, h)) > 1}
GroupsOfHash(duplicates, h) ==
    {k \in 1..Len(duplicates) :
        \E i \in 1..Len(duplicates[k].value.files) :
            duplicates[k].value.files[i].md5Checksum = h}

\* C11: for any input in which two or more records share one content hash,
\* content-hash detection returns exactly one duplicate group for that hash;
\* the group is the one of the content-hash strategy (the code writes the tag
\* 'content_hash' in detection_method and 'exact_content' in type), its
\* confidence is high and its members are all the records with that hash.
C11_OneGroupPerHash ==
    (pc \in {"returned", "raised"} /\ mgr = "exact_hash") =>
        \A h \in SharedHashes(call.files) :
            /\ pc = "returned"
            /\ Cardinality(GroupsOfHash(ret.duplicates, h)) = 1
            /\ \A k \in GroupsOfHash(ret.duplicates, h) :
                  /\ ret.duplicates[k].value.detection_method = "content_hash"
                  /\ ret.duplicates[k].value.confidence = "high"
                  /\ ret.duplicates[k].value.files = HashGroup(call.files, h)

(***************************************************************************)
(* duplicate_detector.py: DuplicateDetector(method, threshold) and one     *)
(* call of check_for_duplicate with a method of one strategy, on records   *)
(* whose key fields and titles are close to each other.                    *)
(***************************************************************************)
MaxCorpus == 2

T_b == <<"b">>
T_dot == <<".">>
Title_a == <<"a", "a", "a", "a", "a", "a", "a", "a", "a", "a">>
Title_b == <<"a", "a", "a", "a", "a", "a", "a", "a", "a", "b">>
SimRows ==
    {("Document ID" :> i) @@ ("Source URL" :> u) @@ ("Document Title" :> t)
        @@ ("Summary" :> <<>>) @@ ("Tags" :> <<>>) :
        i \in {T_dot, T_a, T_b}, u \in {<<>>, T_a}, t \in {<<>>, Title_a, Title_b}}
SimCorpora == UNION {[1..n -> SimRows] : n \in 0..MaxCorpus}
\* the detectors: DuplicateDetector(method="exact"), and
\* DuplicateDetector(method="fuzzy", threshold=85 or 95)
Detectors ==
    {[method |-> "exact", threshold |-> FUZZY_MATCH_THRESHOLD],
     [method |-> "fuzzy", threshold |-> FUZZY_MATCH_THRESHOLD],
     [method |-> "fuzzy", threshold |-> 95]}

\* lines 237-243 without the fall back of the "fuzzy" method to the titles
check_for_duplicate_no_title(method, threshold, new_row, existing_data) ==
    IF existing_data = <<>> THEN NoMatch
    ELSE IF method = "exact" THEN exact_match(new_row, existing_data)
    ELSE IF method = "hash" THEN content_hash_match(new_row, existing_data)
    ELSE fuzzy_match_threshold(new_row, existing_data, threshold)

\* lines 222-246: check_for_duplicate of a detector whose method is "exact",
\* "fuzzy" or "hash"
check_for_duplicate_method(method, threshold, new_row, existing_data) ==
    IF existing_data = <<>> THEN NoMatch
    ELSE IF method = "exact" THEN exact_match(new_row, existing_data)
    ELSE IF method = "hash" THEN content_hash_match(new_row, existing_data)
    ELSE IF fuzzy_match_threshold(new_row, existing_data, threshold).is_dup
    THEN fuzzy_match_threshold(new_row, existing_data, threshold)
    ELSE title_similarity_match(new_row, existing_data)

InitSim ==
    /\ mgr = "similarity"
    /\ spreadsheets = <<>>
    /\ current_spreadsheet = 0
    /\ current_worksheet = NoneWs
    /\ sheet_registry = [sheets |-> <<>>, current_sheet_index |-> 0, total_rows_used |-> 0]
    /\ pc = "check_for_duplicate"
    /\ \E detector \in Detectors, new_row \in SimRows, existing_data \in SimCorpora :
          call = [op |-> "check_for_duplicate", method |-> detector.method,
                  threshold |-> detector.threshold, new_row |-> new_row,
                  existing_data |-> existing_data]
    /\ ret = NoRet
    /\ hist = <<>>
    /\ submitted = 0

check_for_duplicate_call ==
    /\ pc = "check_for_duplicate"
    /\ pc' = "done"
    /\ ret' = [op |-> "check_for_duplicate",
               info |-> check_for_duplicate_method(call.method, call.threshold,
                                                   call.new_row, call.existing_data)]
    /\ UNCHANGED <<mgr, spreadsheets, current_spreadsheet, current_worksheet,
                   sheet_registry, call, hist, submitted>>

NextSim == check_for_duplicate_call

SpecSim == InitSim /\ [][NextSim]_vars

SimReturned(method) == mgr = "similarity" /\ pc = "done" /\ call.method = method
\* the two records hold the same value in every field of DUPLICATE_CHECK_FIELDS
SameKeyFields(row1, row2) ==
    \A k \in 1..Len(DUPLICATE_CHECK_FIELDS) :
        row1[DUPLICATE_CHECK_FIELDS[k]] = row2[DUPLICATE_CHECK_FIELDS[k]]

\* C12, as claimed: whenever the candidate and a corpus record hold the same
\* values in all the key fields, exact_match reports a match of the exact
\* tier (match_type 'exact'; the match info has no other confidence) with
\* score 100.
C12_ExactHigh ==
    SimReturned("exact") =>
        \A idx \in 1..Len(call.existing_data) :
            SameKeyFields(call.new_row, call.existing_data[idx]) =>
                /\ ret.info.is_dup
                /\ ret.info.match_type = "exact"
                /\ ret.info.match_score = 100

\* C12, amended: whenever the candidate and a corpus record hold the same
\* values in all the key fields, and one of these values at least is not empty
\* after normalization, exact_match reports a match of type 'exact' with
\* score 100, on that record or on an earlier one with the same key; when
\* every key field normalizes to the empty text no match is reported.
C12_ExactNonEmpty ==
    SimReturned("exact") =>
        \A idx \in 1..Len(call.existing_data) :
            SameKeyFields(call.new_row, call.existing_data[idx]) =>
                IF \E k \in 1..Len(DUPLICATE_CHECK_FIELDS) :
                       normalize_text(call.new_row[DUPLICATE_CHECK_FIELDS[k]]) # <<>>
                THEN /\ ret.info.is_dup
                     /\ ret.info.match_type = "exact"
                     /\ ret.info.match_score = 100
                     /\ ret.info.matched_row_index <= idx
                     /\ generate_record_key(call.existing_data[ret.info.matched_row_index])
                            = generate_record_key(call.new_row)
                ELSE ~ret.info.is_dup
C12_Witness ==
    /\ SimReturned("exact")
    /\ Len(call.existing_data) = 2
    /\ ~SameKeyFields(call.new_row, call.existing_data[1])
    /\ SameKeyFields(call.new_row, call.existing_data[2])
    /\ call.new_row["Document ID"] = T_a /\ call.new_row["Source URL"] = T_a
    /\ ret.info.is_dup /\ ret.info.matched_row_index = 2 /\ ret.info.match_score = 100


\* the similarity scores of the candidate and the corpus records: of their
\* keys, where both have one, and of their normalized titles, where both
\* have one
KeyScores ==
    {ratio(generate_record_key(call.new_row), generate_record_key(call.existing_data[idx])) :
        idx \in {i \in 1..Len(call.existing_data) :
                    /\ generate_record_key(call.new_row) # <<>>
                    /\ generate_record_key(call.existing_data[i]) # <<>>}}
TitleScores ==
    {ratio(normalized_title(call.new_row), normalized_title(call.existing_data[idx])) :
        idx \in {i \in 1..Len(call.existing_data) :
                    /\ normalized_title(call.new_row) # <<>>
                    /\ normalized_title(call.existing_data[i]) # <<>>}}

\* C13, as claimed: under the "fuzzy" method at threshold T the candidate is
\* reported when its similarity to a corpus record is at least T, and is not
\* reported when every similarity to a corpus record is below T (titles at
\* similarity 90 are not reported at threshold 95).
C13_FuzzyThreshold ==
    SimReturned("fuzzy") =>
        /\ (\E s \in KeyScores \cup TitleScores : s >= call.threshold) => ret.info.is_dup
        /\ (\A s \in KeyScores \cup TitleScores : s < call.threshold) => ~ret.info.is_dup

\* C13, amended: under the "fuzzy" method at threshold T the candidate is
\* reported as a fuzzy match, with the best key score, when the similarity of
\* its key to the key of a corpus record is at least T; when every key scores
\* below T it is reported exactly when its title scores at least
\* TITLE_SIMILARITY_THRESHOLD against a corpus title, as a title_similarity
\* match, whatever T is: titles at similarity 90 are reported at threshold 85
\* and at threshold 95.
C13_FuzzyThenTitle ==
    SimReturned("fuzzy") =>
        /\ (\E s \in KeyScores : s >= call.threshold) =>
              /\ ret.info.is_dup /\ ret.info.match_type = "fuzzy"
              /\ ret.info.match_score = SetMax(KeyScores)
        /\ (\A s \in KeyScores : s < call.threshold) =>
              /\ ret.info.is_dup <=> \E s \in TitleScores : s >= TITLE_SIMILARITY_THRESHOLD
              /\ ret.info.is_dup =>
                    /\ ret.info.match_type = "title_similarity"
                    /\ ret.info.match_score = SetMax(TitleScores)
        /\ (KeyScores = {} /\ TitleScores = {90}) => ret.info.is_dup
C13_Witness ==
    /\ SimReturned("fuzzy")
    /\ call.threshold = 95
    /\ KeyScores = {92}
    /\ TitleScores = {90}
    /\ ret.info.is_dup /\ ret.info.match_type = "title_similarity"
    /\ ret.info.match_score = 90


\* C18: fuzz.ratio gives the same score to (a, b) and to (b, a), for the keys
\* and for the titles of the candidate and of every corpus record; so
\* fuzzy_match and title_similarity_match report the same match, with the
\* same score, whichever of the two records is the candidate and whichever
\* is the corpus.
C18_Symmetric ==
    mgr = "similarity" =>
        \A idx \in 1..Len(call.existing_data) :
            /\ ratio(generate_record_key(call.new_row),
                     generate_record_key(call.existing_data[idx]))
                  = ratio(generate_record_key(call.existing_data[idx]),
                          generate_record_key(call.new_row))
            /\ ratio(normalized_title(call.new_row),
                     normalized_title(call.existing_data[idx]))
                  = ratio(normalized_title(call.existing_data[idx]),
                          normalized_title(call.new_row))
            /\ fuzzy_match_threshold(call.new_row, <<call.existing_data[idx]>>, call.threshold)
                  = fuzzy_match_threshold(call.existing_data[idx], <<call.new_row>>,
                                          call.threshold)
            /\ title_similarity_match(call.new_row, <<call.existing_data[idx]>>)
                  = title_similarity_match(call.existing_data[idx], <<call.new_row>>)
C18_Witness ==
    /\ SimReturned("fuzzy")
    /\ Len(call.existing_data) = 1
    /\ Len(generate_record_key(call.new_row))
          < Len(generate_record_key(call.existing_data[1]))
    /\ Len(generate_record_key(call.new_row)) > 0
    /\ KeyScores = {67}
    /\ ret.info.is_dup /\ ret.info.match_type = "title_similarity"
    /\ ret.info.match_score = 90
    /\ title_similarity_match(call.existing_data[1], <<call.new_row>>) = ret.info


(***************************************************************************)
(* advanced_duplicate_detector.py: _rank_duplicate_groups on a dict of     *)
(* groups of chosen confidence, savings and member count.                  *)
(***************************************************************************)
MaxGroups == 3

\* member counts 15 and 16 apart
MemberCounts == {2, 17, 18}
RankGroups ==
    {[type |-> "exact_content", confidence |-> c, files |-> [i \in 1..n |-> i],
      duplicate_count |-> n, potential_savings_mb |-> s * MB] :
        c \in {"high", "low"}, s \in {0, 50}, n \in MemberCounts}
\* the dictionaries of n groups
RankDicts(n) ==
    {[i \in 1..n |-> [key |-> <<"group", ToString(i)>>, value |-> groups[i]]] :
        groups \in [1..n -> RankGroups]}

InitRank ==
    /\ mgr = "ranking"
    /\ spreadsheets = <<>>
    /\ current_spreadsheet = 0
    /\ current_worksheet = NoneWs
    /\ sheet_registry = [sheets |-> <<>>, current_sheet_index |-> 0, total_rows_used |-> 0]
    /\ pc = "rank_duplicate_groups"
    /\ \E n \in 1..MaxGroups : \E duplicates \in RankDicts(n) :
          call = [op |-> "rank_duplicate_groups", duplicates |-> duplicates]
    /\ ret = NoRet
    /\ hist = <<>>
    /\ submitted = 0

rank_duplicate_groups_call ==
    /\ pc = "rank_duplicate_groups"
    /\ pc' = "returned"
    /\ ret' = [op |-> "rank_duplicate_groups",
               ranked_groups |-> rank_duplicate_groups(call.duplicates)]
    /\ UNCHANGED <<mgr, spreadsheets, current_spreadsheet, current_worksheet,
                   sheet_registry, call, hist, submitted>>

NextRank == rank_duplicate_groups_call

SpecRank == InitRank /\ [][NextRank]_vars

Ranked == mgr = "ranking" /\ pc = "returned"
HighNoSavings(g) == g.confidence = "high" /\ g.potential_savings_mb = 0
LowFiftyMB(g) == g.confidence = "low" /\ g.potential_savings_mb = 50 * MB
\* the position of a group in the dict that was ranked
Discovered(g) == CHOOSE k \in 1..Len(call.duplicates) : call.duplicates[k].key = g.group_id

\* C14, as claimed: in the ranked list every group of confidence high and
\* 0 MB savings stands before every group of confidence low and 50 MB
\* savings, whatever their member counts.
C14_HighAboveLow ==
    Ranked =>
        \A i, j \in 1..Len(ret.ranked_groups) :
            (HighNoSavings(ret.ranked_groups[i]) /\ LowFiftyMB(ret.ranked_groups[j]))
                => i < j

\* C14, amended: a group of confidence high and 0 MB savings stands before a
\* group of confidence low and 50 MB savings when the low group has fewer
\* than 15 members more than the high one; with more than 15 members more
\* the low group stands first, and with exactly 15 more the scores are equal
\* and the group discovered first stands first.
C14_HighAboveLowByCount ==
    Ranked =>
        /\ Len(ret.ranked_groups) = Len(call.duplicates)
        /\ \A i, j \in 1..Len(ret.ranked_groups) :
              (HighNoSavings(ret.ranked_groups[i]) /\ LowFiftyMB(ret.ranked_groups[j])) =>
                  LET more == ret.ranked_groups[j].duplicate_count
                                  - ret.ranked_groups[i].duplicate_count
                  IN /\ more < 15 => i < j
                     /\ more > 15 => j < i
                     /\ more = 15 =>
                           (i < j <=> Discovered(ret.ranked_groups[i])
                                          < Discovered(ret.ranked_groups[j]))
C14_Witness ==
    /\ Ranked
    /\ Len(ret.ranked_groups) = 3
    /\ LowFiftyMB(ret.ranked_groups[1]) /\ ret.ranked_groups[1].duplicate_count = 18
    /\ HighNoSavings(ret.ranked_groups[2]) /\ ret.ranked_groups[2].duplicate_count = 2
    /\ LowFiftyMB(ret.ranked_groups[3]) /\ ret.ranked_groups[3].duplicate_count = 17
    /\ Discovered(ret.ranked_groups[3]) = 3 /\ Discovered(ret.ranked_groups[1]) = 2


(***************************************************************************)
(* duplicate_detector.py: generate_content_hash(row_data, fields) on a     *)
(* dict and on the same dict built in another order.  A dict is the        *)
(* sequence of its items in insertion order.                               *)
(***************************************************************************)
HashFields == {"Document Title", "Summary", "Tags"}
HashTexts == {<<>>, T_a, <<" ", "B", ".">>}
Orders(S) == {order \in [1..Cardinality(S) -> S] :
                 \A i, j \in 1..Cardinality(S) : order[i] = order[j] => i = j}
\* the dicts over some of the fields, and the lists of fields to hash
RowDicts ==
    UNION {{[i \in 1..Cardinality(S) |-> [key |-> order[i], value |-> value[order[i]]]] :
               order \in Orders(S), value \in [S -> HashTexts]} : S \in SUBSET HashFields}
FieldLists == UNION {Orders(S) : S \in SUBSET HashFields \ {{}}}

\* row_data[field] when field is in row_data, None (the empty text) otherwise
get(row_data, field) ==
    IF \E i \in 1..Len(row_data) : row_data[i].key = field
    THEN row_data[CHOOSE i \in 1..Len(row_data) : row_data[i].key = field].value
    ELSE <<>>
\* the same loop over the items of row_data, in the order of the dict, and no
\* sorting
RECURSIVE items_parts(_, _)
items_parts(row_data, fields) ==
    IF row_data = <<>> THEN <<>>
    ELSE IF (\E k \in 1..Len(fields) : fields[k] = row_data[1].key)
            /\ normalize_text(row_data[1].value) # <<>>
    THEN <<normalize_text(row_data[1].value)>> \o items_parts(Tail(row_data), fields)
    ELSE items_parts(Tail(row_data), fields)
generate_content_hash_in_dict_order(row_data, fields) ==
    IF items_parts(row_data, fields) = <<>> THEN <<>>
    ELSE <<"md5">> \o join(items_parts(row_data, fields))

\* lines 66-71: content_parts, in the order of fields
RECURSIVE content_parts(_, _)
content_parts(row_data, fields) ==
    IF fields = <<>> THEN <<>>
    ELSE IF normalize_text(get(row_data, Head(fields))) = <<>>
    THEN content_parts(row_data, Tail(fields))
    ELSE <<normalize_text(get(row_data, Head(fields)))>>
             \o content_parts(row_data, Tail(fields))
\* lines 60-78; md5 is taken to be free of collisions, None is the empty
\* sequence
generate_content_hash_fields(row_data, fields) ==
    IF content_parts(row_data, fields) = <<>> THEN <<>>
    ELSE <<"md5">> \o join(sorted(content_parts(row_data, fields)))

InitOrder ==
    /\ mgr = "content_hash"
    /\ spreadsheets = <<>>
    /\ current_spreadsheet = 0
    /\ current_worksheet = NoneWs
    /\ sheet_registry = [sheets |-> <<>>, current_sheet_index |-> 0, total_rows_used |-> 0]
    /\ pc = "generate_content_hash"
    /\ \E row_data \in RowDicts, fields \in FieldLists :
          \E reordered \in {r \in RowDicts :
                               {r[i] : i \in 1..Len(r)} = {row_data[i] : i \in 1..Len(row_data)}} :
              call = [op |-> "generate_content_hash", row_data |-> row_data,
                      reordered |-> reordered, fields |-> fields]
    /\ ret = NoRet
    /\ hist = <<>>
    /\ submitted = 0

\* the hash of the dict and the hash of the reordered dict
generate_content_hash_call ==
    /\ pc = "generate_content_hash"
    /\ pc' = "done"
    /\ ret' = [op |-> "generate_content_hash",
               hash |-> generate_content_hash_fields(call.row_data, call.fields),
               hash_reordered |-> generate_content_hash_fields(call.reordered, call.fields)]
    /\ UNCHANGED <<mgr, spreadsheets, current_spreadsheet, current_worksheet,
                   sheet_registry, call, hist, submitted>>

NextOrder == generate_content_hash_call

SpecOrder == InitOrder /\ [][NextOrder]_vars

\* C15: generate_content_hash returns the same value for two records that
\* hold the same field/value pairs in a different dictionary order, for every
\* list of content fields.
C15_OrderIndependent ==
    (mgr = "content_hash" /\ pc = "done") => ret.hash = ret.hash_reordered
C15_Witness ==
    /\ mgr = "content_hash" /\ pc = "done"
    /\ Len(call.row_data) = 3
    /\ call.reordered = [i \in 1..3 |-> call.row_data[4 - i]]
    /\ call.fields = <<"Tags", "Summary">>
    /\ get(call.row_data, "Tags") = <<" ", "B", ".">>
    /\ get(call.row_data, "Summary") = T_a
    /\ ret.hash = <<"md5", "a", "|", "b">>
    /\ ret.hash_reordered = ret.hash


(***************************************************************************)
(* auto_scaling_sheets.py: find_file_location after calls of               *)
(* add_file_data with files of distinct identifiers.                       *)
(***************************************************************************)
MaxId == 2

IdLists == UNION {[1..n -> 1..MaxId] : n \in 0..MaxBatch}
\* the identifiers looked up: the stored ones, one that is never stored and
\* the text of the header cell of the lookup column
LookupIds == {ToString(i) : i \in 1..(MaxId + 1)} \cup {"file_id"}

\* the cell of a row in the column 'file_id': str(file_info.get('file_id', ''))
file_id_cell(row) ==
    IF row = HeaderRow THEN "file_id"
    ELSE IF row[2] = 0 THEN "" ELSE ToString(row[2])
\* worksheet.col_values: the cells of the column down to its last cell that
\* is not empty
RECURSIVE col_values(_)
col_values(ws) ==
    IF ws # <<>> /\ file_id_cell(ws[Len(ws)]) = ""
    THEN col_values(SubSeq(ws, 1, Len(ws) - 1))
    ELSE [k \in 1..Len(ws) |-> file_id_cell(ws[k])]
index(values, value) == CHOOSE i \in 1..Len(values) :
                            /\ values[i] = value
                            /\ \A j \in 1..(i - 1) : values[j] # value
NotFound == [found |-> FALSE, sheet_id |-> 0, row_number |-> 0]

\* lines 504-530 from the k-th registered sheet on; opening the sheet at
\* position fail raises, which the loop logs and passes over
RECURSIVE find_file_location(_, _, _, _, _)
find_file_location(sheets, ss, file_id, fail, k) ==
    LET Search(file_ids) ==
            IF \E i \in 1..Len(file_ids) : file_ids[i] = file_id
            THEN [found |-> TRUE, sheet_id |-> sheets[k].id,
                  row_number |-> index(file_ids, file_id)]
            ELSE find_file_location(sheets, ss, file_id, fail, k + 1)
        Headers(main_worksheet) ==
            IF main_worksheet # <<>> /\ file_id_cell(main_worksheet[1]) = "file_id"
            THEN Search(col_values(main_worksheet))
            ELSE find_file_location(sheets, ss, file_id, fail, k + 1)
    IN IF k > Len(sheets) THEN NotFound
       ELSE IF k = fail THEN find_file_location(sheets, ss, file_id, fail, k + 1)
       ELSE Headers(ss[sheets[k].id][1])

InitLocate ==
    /\ mgr = "auto"
    /\ spreadsheets = <<>>
    /\ current_spreadsheet = 0
    /\ current_worksheet = NoneWs
    /\ sheet_registry = [sheets |-> <<>>, current_sheet_index |-> 0, total_rows_used |-> 0]
    /\ pc = "idle"
    /\ call = NoCall
    /\ ret = NoRet
    /\ hist = NoHist
    /\ submitted = 0

find_file_location_call(file_id, fail) ==
    /\ mgr = "auto" /\ pc = "idle"
    /\ fail <= Len(sheet_registry.sheets)
    /\ ret' = [op |-> "find_file_location", file_id |-> file_id, fail |-> fail,
               location |-> find_file_location(sheet_registry.sheets, spreadsheets,
                                               file_id, fail, 1)]
    /\ UNCHANGED <<mgr, spreadsheets, current_spreadsheet, current_worksheet,
                   sheet_registry, pc, call, hist, submitted>>

NextLocate ==
    \/ \E file_data \in IdLists, size \in ChunkSizes :
          add_file_data(file_data, size)
    \/ \E out \in AsmOutcomes, wfail \in BOOLEAN : add_file_data_batch(out, wfail)
    \/ \E file_id \in LookupIds, fail \in 0..MAX_SHEETS_PER_SPREADSHEET :
          find_file_location_call(file_id, fail)

SpecLocate == InitLocate /\ [][NextLocate]_vars

Located == pc = "idle" /\ ret.op = "find_file_location"
\* the rows of the main worksheet of the k-th registered sheet
MainRows(k) == spreadsheets[sheet_registry.sheets[k].id][1]
\* the places <<k, row>> where a record with the identifier is stored
StoredAt(file_id) ==
    {p \in UNION {{<<k, n>> : n \in 1..Len(MainRows(k))} :
                     k \in 1..Len(sheet_registry.sheets)} :
        /\ MainRows(p[1])[p[2]][1] = "file"
        /\ file_id_cell(MainRows(p[1])[p[2]]) = file_id}
Before(p, q) == p[1] < q[1] \/ (p[1] = q[1] /\ p[2] < q[2])

\* C16: find_file_location returns the sheet and the row of the first row, in
\* the order the sheets were created, whose file_id column holds the
\* identifier: for an identifier that add_file_data stored this is a sheet
\* and row the record was written to; for an identifier that was never
\* stored it returns None.
C16_Locate ==
    Located =>
        IF StoredAt(ret.file_id) = {}
        THEN ~ret.location.found
        ELSE /\ ret.location.found
             /\ \E p \in StoredAt(ret.file_id) :
                   /\ \A q \in StoredAt(ret.file_id) : p = q \/ Before(p, q)
                   /\ ret.location.sheet_id = sheet_registry.sheets[p[1]].id
                   /\ ret.location.row_number = p[2]


(***************************************************************************)
(* multi_sheet_manager.py: cleanup_empty_sheets, called between the appends.*)
(* fault names the one backend call of the cleanup that fails, if any:     *)
(* "list", list_spreadsheets_in_folder; "open", open_by_key of spreadsheet *)
(* s; "count", get_all_values of worksheet w of s, where                   *)
(* get_sheet_row_count returns 0; "delete", del_worksheet of w of s.       *)
(***************************************************************************)
NoFault == [kind |-> "none", s |-> 0, w |-> 0]

\* lines 511-526: the worksheets of one spreadsheet
cleanup_of_spreadsheet(sheet, s, fault) ==
    LET row_count(w) ==
            IF fault.kind = "count" /\ fault.s = s /\ fault.w = w THEN 0
            ELSE get_sheet_row_count(sheet[w])
        \* del_worksheet raises and the loop over the worksheets is left
        last == IF fault.kind = "delete" /\ fault.s = s /\ fault.w >= 2
                   /\ fault.w <= Len(sheet) /\ row_count(fault.w) <= 1
                THEN fault.w - 1 ELSE Len(sheet)
        Kept(deleted) ==
            [sheet |-> Pick(sheet, (1..Len(sheet)) \ deleted), cleaned |-> Cardinality(deleted),
             deleted |-> deleted]
    IN IF fault.kind = "open" /\ fault.s = s
       THEN [sheet |-> sheet, cleaned |-> 0, deleted |-> {}]
       ELSE Kept({w \in 2..last : row_count(w) <= 1})

\* lines 504-533
cleanup_empty_sheets(ss, fault) ==
    IF fault.kind = "list" THEN [ss |-> ss, cleaned |-> 0]
    ELSE [ss |-> [s \in 1..Len(ss) |-> cleanup_of_spreadsheet(ss[s], s, fault).sheet],
          cleaned |-> SumSeq([s \in 1..Len(ss) |->
                                 cleanup_of_spreadsheet(ss[s], s, fault).cleaned])]

\* the worksheet object ref after the cleanup: <<s, 0>> when it was deleted
worksheet_after_cleanup(ss, fault, ref) ==
    LET Moved(deleted) ==
            IF ref[2] \in deleted THEN <<ref[1], 0>>
            ELSE <<ref[1], ref[2] - Cardinality({w \in deleted : w < ref[2]})>>
    IN IF ref[1] = 0 \/ ref[2] = 0 \/ fault.kind = "list" THEN ref
       ELSE Moved(cleanup_of_spreadsheet(ss[ref[1]], ref[1], fault).deleted)

InitClean ==
    /\ mgr = "multi"
    /\ spreadsheets = <<>>
    /\ current_spreadsheet = 0
    /\ current_worksheet = NoneWs
    /\ sheet_registry = [sheets |-> <<>>, current_sheet_index |-> 0, total_rows_used |-> 0]
    /\ pc = "idle"
    /\ call = NoCall
    /\ ret = NoRet
    /\ hist = NoHist
    /\ submitted = 0

\* MultiSheetManager.cleanup_empty_sheets(); hist keeps the worksheets there
\* were before the call.  self.current_worksheet is not assigned: it stays
\* the same worksheet object, deleted or not
cleanup_empty_sheets_call(fault) ==
    /\ mgr = "multi" /\ pc = "idle"
    /\ spreadsheets' = cleanup_empty_sheets(spreadsheets, fault).ss
    /\ current_worksheet' = worksheet_after_cleanup(spreadsheets, fault, current_worksheet)
    /\ ret' = [op |-> "cleanup_empty_sheets",
               cleaned |-> cleanup_empty_sheets(spreadsheets, fault).cleaned]
    /\ hist' = [op |-> "cleanup_empty_sheets", before |-> spreadsheets, fault |-> fault]
    /\ UNCHANGED <<mgr, current_spreadsheet, sheet_registry, pc, call, submitted>>

NextClean ==
    \/ \E r \in Records, F \in Faults : add_data(r, F)
    \/ \E data_list \in DataLists, chunk_size \in ChunkSizes :
          add_batch_data(data_list, chunk_size)
    \/ \E F \in Faults : add_batch_data_chunk(F)
    \/ \E kind \in {"none", "list"} : cleanup_empty_sheets_call([NoFault EXCEPT !.kind = kind])
    \/ \E kind \in {"open", "count", "delete"}, s \in 1..Len(spreadsheets) :
          \E w \in 1..Len(spreadsheets[s]) :
              cleanup_empty_sheets_call([kind |-> kind, s |-> s, w |-> w])

SpecClean == InitClean /\ [][NextClean]_vars

\* cleanup_empty_sheets is the call that returned last
Cleaned == pc = "idle" /\ ret.op = "cleanup_empty_sheets"
\* the worksheet holds a row of a record with values
HoldsData(ws) == \E k \in 1..Len(ws) : ws[k][1] = "data" /\ ~RowIsBlank(ws[k])

\* C17: cleanup_empty_sheets removes the worksheets that hold at most the
\* header row, the first worksheet of each spreadsheet excepted; the first
\* worksheet stays even if empty, and so does every worksheet that holds a
\* data row.
C17_Cleanup ==
    Cleaned =>
        /\ Len(spreadsheets) = Len(hist.before)
        /\ \A s \in 1..Len(hist.before) :
              spreadsheets[s] =
                  Pick(hist.before[s],
                       {w \in 1..Len(hist.before[s]) : w = 1 \/ HoldsData(hist.before[s][w])})


(***************************************************************************)
(* multi_sheet_manager.py: get_or_create_spreadsheet called by the caller  *)
(* itself, after the appends.  hist keeps the manager there was before the *)
(* call.                                                                   *)
(***************************************************************************)
InitWritable ==
    /\ mgr = "multi"
    /\ spreadsheets = <<>>
    /\ current_spreadsheet = 0
    /\ current_worksheet = NoneWs
    /\ sheet_registry = [sheets |-> <<>>, current_sheet_index |-> 0, total_rows_used |-> 0]
    /\ pc = "idle"
    /\ call = NoCall
    /\ ret = NoRet
    /\ hist = NoHist
    /\ submitted = 0

get_or_create_spreadsheet_call(force_new, tabFail, out, hdrFail) ==
    /\ mgr = "multi" /\ pc = "idle"
    /\ pc' = "returned"
    /\ LET Done(g) ==
               /\ Store(g.m)
               /\ ret' = [op |-> "get_or_create_spreadsheet", raised |-> g.exc,
                          spreadsheet |-> g.ret]
       IN Done(get_or_create_spreadsheet(Mgr(NoHist), force_new, tabFail, out, hdrFail))
    /\ hist' = [op |-> "get_or_create_spreadsheet", force_new |-> force_new,
                ss |-> spreadsheets, cs |-> current_spreadsheet,
                cw |-> current_worksheet]
    /\ UNCHANGED <<mgr, call, submitted>>

NextWritable ==
    \/ \E r \in Records, F \in Faults : add_data(r, F)
    \/ \E data_list \in DataLists, chunk_size \in ChunkSizes :
          add_batch_data(data_list, chunk_size)
    \/ \E F \in Faults : add_batch_data_chunk(F)
    \/ \E force_new, tabFail, hdrFail \in BOOLEAN, out \in SsOutcomes :
          get_or_create_spreadsheet_call(force_new, tabFail, out, hdrFail)

SpecWritable == InitWritable /\ [][NextWritable]_vars

\* get_or_create_spreadsheet() has returned a spreadsheet
Writable ==
    /\ pc = "returned" /\ ~hist.force_new
    /\ ~ret.raised /\ ret.spreadsheet # 0
\* the active worksheet before the call, and whether it had room
HadActive == hist.cw # NoneWs
ActiveHadRoom == HadActive /\ ~is_sheet_full(Sheet(hist.ss, hist.cw))
\* a worksheet of the current spreadsheet had room before the call
ContainerHadRoom ==
    /\ hist.cs # 0
    /\ \E w \in 1..Len(hist.ss[hist.cs]) : ~is_sheet_full(hist.ss[hist.cs][w])

MaxSplit == 4
SplitLists ==
    UNION {{[k \in 1..n |-> IF k \in blank THEN 0 ELSE k] : blank \in SUBSET (1..n)} :
           n \in 1..MaxSplit}

InitSplit ==
    /\ mgr = "multi"
    /\ spreadsheets = <<>>
    /\ current_spreadsheet = 0
    /\ current_worksheet = NoneWs
    /\ sheet_registry = [sheets |-> <<>>, current_sheet_index |-> 0, total_rows_used |-> 0]
    /\ pc = "idle"
    /\ call = NoCall
    /\ ret = NoRet
    /\ hist = NoHist
    /\ submitted = 0

NextSplit ==
    \/ \E r \in Records, F \in Faults : add_data(r, F)
    \/ \E data_list \in SplitLists, chunk_size \in ChunkSizes :
          add_batch_data(data_list, chunk_size)
    \/ \E F \in Faults : add_batch_data_chunk(F)

SpecSplit == InitSplit /\ [][NextSplit]_vars

\* the records with values, in order: of a list of records, of a worksheet
NonBlank(data) == SelectSeq(data, LAMBDA r : r # 0)
Stored(ws) ==
    LET rows == SelectSeq(ws, LAMBDA row : row[1] = "data" /\ ~RowIsBlank(row))
    IN [k \in 1..Len(rows) |-> rows[k][2]]
StoredAtRef(ss, ref) ==
    IF ref[1] \in 1..Len(ss) /\ ref[2] \in 1..Len(ss[ref[1]]) THEN Stored(Sheet(ss, ref))
    ELSE <<>>
Occurrences(s, r) == Cardinality({k \in 1..Len(s) : s[k] = r})
StoredCount(ss, r) ==
    SumSeq([s \in 1..Len(ss) |->
              SumSeq([w \in 1..Len(ss[s]) |-> Occurrences(Stored(ss[s][w]), r)])])

\* the chunk of the coming iteration, every backend call of which succeeds
ChunkStep == pc = "add_batch_data" /\ hist'.faults = {}
NextChunk == ChunkAt(call.data_list, call.i, call.chunk_size)
\* the manager after get_or_create_spreadsheet() of the iteration
Ensured == get_or_create_spreadsheet(Mgr(hist), FALSE, FALSE, "ok", FALSE).m

SplitWritten(chunk, m, rows_used) ==
    (rows_used + Len(chunk) > MAX_ROWS_PER_SHEET) =>
        /\ MAX_ROWS_PER_SHEET - rows_used >= 1
        /\ Stored(Sheet(spreadsheets', m.cw)) =
              Stored(Sheet(m.ss, m.cw))
                 \o NonBlank(SubSeq(chunk, 1, MAX_ROWS_PER_SHEET - rows_used))
        /\ current_worksheet' # m.cw
        /\ Stored(Sheet(spreadsheets', current_worksheet')) =
              StoredAtRef(m.ss, current_worksheet')
                 \o NonBlank(SubSeq(chunk, MAX_ROWS_PER_SHEET - rows_used + 1, Len(chunk)))

StoredOnce(chunk) ==
    \A r \in 1..MaxSplit :
        StoredCount(spreadsheets', r) = StoredCount(spreadsheets, r) + Occurrences(chunk, r)

\* C20: in an iteration of add_batch_data in which every backend call
\* succeeds, a chunk that does not fit in the current worksheet is split: its
\* first MAX_ROWS_PER_SHEET - rows used records are added to the current
\* worksheet and the others, in order, to the next worksheet; every record
\* of the chunk is stored once more than before, none twice and none dropped.
C20_Split ==
    [][ChunkStep =>
          /\ SplitWritten(NextChunk, Ensured, get_sheet_row_count(Sheet(Ensured.ss, Ensured.cw)))
          /\ StoredOnce(NextChunk)]_vars


\* C21: after any sequence of appends no spreadsheet holds more worksheets
\* than MAX_SHEETS_PER_SPREADSHEET.
C21_SheetCap ==
    \A s \in 1..Len(spreadsheets) : Len(spreadsheets[s]) <= MAX_SHEETS_PER_SPREADSHEET


(***************************************************************************)
(* multi_sheet_manager.py: add_data called by several writers that share   *)
(* one manager and run without a lock.  A call is three steps, between     *)
(* which the other writers may run: the placement of lines 249-310 (the    *)
(* duplicate check, get_or_create_spreadsheet, is_sheet_full), the read of *)
(* get_sheet_row_count in add_data_to_sheet, and its worksheet.update.     *)
(* pc, call and ret hold one entry per writer.  The k-th call of the run   *)
(* passes the record k.                                                    *)
(***************************************************************************)
NumWriters == 2
MaxRace == 4
Writers == 1..NumWriters

\* lines 288-310 of add_data: the worksheet the row is going to
add_data_locate(m, F) ==
    LET Forced(n) ==
            IF n.exc \/ n.ret = 0 THEN [m |-> n.m, go |-> FALSE] ELSE [m |-> n.m, go |-> TRUE]
        Headed(sw) ==
            IF get_sheet_row_count(Sheet(sw.ss, sw.cw)) = 0
            THEN [m |-> setup_sheet_headers(sw, sw.cw, F.hdr), go |-> TRUE]
            ELSE [m |-> sw, go |-> TRUE]
        Moved(f, sp) ==
            IF f.w # 0 THEN Headed([f.m EXCEPT !.cw = <<sp, f.w>>])
            ELSE Forced(get_or_create_spreadsheet(f.m, TRUE, F.tab2, F.ss2, F.hdr))
        Placed(g) ==
            IF g.exc THEN [m |-> g.m, go |-> FALSE]
            ELSE IF g.ret = 0 \/ g.m.cw = NoneWs THEN [m |-> g.m, go |-> FALSE]
            ELSE IF is_sheet_full(Sheet(g.m.ss, g.m.cw))
            THEN Moved(find_available_sheet(g.m, g.ret, F.tab2), g.ret)
            ELSE [m |-> g.m, go |-> TRUE]
    IN Placed(get_or_create_spreadsheet(m, FALSE, F.tab1, F.ss1, F.hdr))

InitRace ==
    /\ mgr = "multi"
    /\ spreadsheets = <<>>
    /\ current_spreadsheet = 0
    /\ current_worksheet = NoneWs
    /\ sheet_registry = [sheets |-> <<>>, current_sheet_index |-> 0, total_rows_used |-> 0]
    /\ pc = [t \in Writers |-> "idle"]
    /\ call = [t \in Writers |-> NoCall]
    /\ ret = [t \in Writers |-> NoRet]
    /\ hist = [overlap |-> FALSE, both |-> NoneWs]
    /\ submitted = 0

\* another writer is in the middle of a call
Busy(t) == \E u \in Writers \ {t} : pc[u] # "idle"
\* another writer has seen room in the worksheet ref and has not yet written
SeenBy(t, ref) == \E u \in Writers \ {t} : pc[u] \in {"count", "update"} /\ call[u].seen = ref

Returned(t, success, action_taken) ==
    /\ pc' = [pc EXCEPT ![t] = "idle"]
    /\ call' = [call EXCEPT ![t] = NoCall]
    /\ ret' = [ret EXCEPT ![t] = [op |-> "add_data", raised |-> FALSE,
                                  success |-> success, action_taken |-> action_taken]]

\* add_data up to the call of add_data_to_sheet
add_data_check(t, F) ==
    /\ mgr = "multi" /\ pc[t] = "idle" /\ submitted < MaxRace
    /\ submitted' = submitted + 1
    /\ LET m == Mgr(NoHist)
           Aimed(l) ==
               /\ Store(l.m)
               /\ IF l.go
                  THEN /\ pc' = [pc EXCEPT ![t] = "count"]
                       /\ call' = [call EXCEPT ![t] =
                                     [op |-> "add_data", data_row |-> submitted + 1,
                                      worksheet |-> l.m.cw,
                                      seen |-> IF current_worksheet = l.m.cw
                                               THEN l.m.cw ELSE NoneWs,
                                      next_row |-> 0]]
                       /\ ret' = [ret EXCEPT ![t] = NoRet]
                       /\ hist' = [overlap |-> hist.overlap \/ Busy(t),
                                   both |-> IF hist.both = NoneWs
                                               /\ current_worksheet = l.m.cw
                                               /\ SeenBy(t, l.m.cw)
                                            THEN l.m.cw ELSE hist.both]
                  ELSE /\ Returned(t, FALSE, "none")
                       /\ hist' = [hist EXCEPT !.overlap = @ \/ Busy(t)]
       IN IF check_for_duplicates_in_current_data(m, submitted + 1)
          THEN /\ Returned(t, FALSE, "skipped")
               /\ hist' = [hist EXCEPT !.overlap = @ \/ Busy(t)]
               /\ UNCHANGED <<spreadsheets, current_spreadsheet, current_worksheet,
                              sheet_registry>>
          ELSE Aimed(add_data_locate(m, F))
    /\ UNCHANGED mgr

\* add_data_to_sheet, lines 93-94: the next empty row
add_data_count(t) ==
    /\ pc[t] = "count"
    /\ pc' = [pc EXCEPT ![t] = "update"]
    /\ call' = [call EXCEPT ![t].next_row =
                  get_sheet_row_count(Sheet(spreadsheets, call[t].worksheet)) + 1]
    /\ UNCHANGED <<mgr, spreadsheets, current_spreadsheet, current_worksheet,
                   sheet_registry, ret, hist, submitted>>

\* add_data_to_sheet, line 101, and the return of add_data
add_data_update(t, fail) ==
    /\ pc[t] = "update"
    /\ IF fail
       THEN /\ Returned(t, FALSE, "none")
            /\ UNCHANGED spreadsheets
       ELSE /\ Returned(t, TRUE, "none")
            /\ spreadsheets' =
                  PutSheet(spreadsheets, call[t].worksheet,
                           Update(Sheet(spreadsheets, call[t].worksheet),
                                  call[t].next_row, <<Row(call[t].data_row)>>))
    /\ UNCHANGED <<mgr, current_spreadsheet, current_worksheet, sheet_registry, hist,
                   submitted>>

NextRace ==
    \/ \E t \in Writers, F \in Faults : add_data_check(t, F)
    \/ \E t \in Writers : add_data_count(t)
    \/ \E t \in Writers, fail \in BOOLEAN : add_data_update(t, fail)

SpecRace == InitRace /\ [][NextRace]_vars

\* a worksheet holds more rows than MAX_ROWS_PER_SHEET
Overfull(ws) == Len(ws) > MAX_ROWS_PER_SHEET
SomeOverfull ==
    \E s \in 1..Len(spreadsheets) : \E w \in 1..Len(spreadsheets[s]) :
        Overfull(spreadsheets[s][w])

RowsKept ==
    \A s \in 1..Len(spreadsheets) : \A w \in 1..Len(spreadsheets[s]) :
        \A k \in 1..Len(spreadsheets[s][w]) :
            /\ s <= Len(spreadsheets') /\ w <= Len(spreadsheets'[s])
            /\ k <= Len(spreadsheets'[s][w])
            /\ spreadsheets'[s][w][k] = spreadsheets[s][w][k]

\* C23: a step of add_data or add_batch_data in which no row write fails
\* leaves every row stored before it unchanged: it writes only after the
\* last occupied row of a worksheet, also when rows of empty values are
\* stored.
C23_NoOverwrite == [][("write" \notin hist'.faults) => RowsKept]_vars


\* C24: after cleanup_empty_sheets the worksheet self.current_worksheet
\* refers to is still a worksheet of its spreadsheet.
C24_TargetExists ==
    Cleaned => current_worksheet = NoneWs \/ current_worksheet[2] # 0


(***************************************************************************)
(* advanced_duplicate_detector.py: _find_perceptual_image_duplicates on    *)
(* images whose hashes lie in a chain: P_1 and P_3 differ in 3 places, P_3 *)
(* and P_6 in 3, P_1 and P_6 in 6, the threshold being 5.                  *)
(***************************************************************************)
MaxImages == 3
P_3 == <<"0", "0", "0", "1", "1", "1">>
P_6 == <<"1", "1", "1", "1", "1", "1">>
ImageShapes ==
    {[file_category |-> "image", md5Checksum |-> HashText(<<>>), name |-> Name(N_report),
      size |-> Size(2097152, TRUE), thumbnail |-> p] : p \in {<<>>, P_1, P_3, P_6}}
ImageLists ==
    UNION {{[i \in 1..n |-> WithId(shapes[i], i)] : shapes \in [1..n -> ImageShapes]} :
           n \in 1..MaxImages}

InitPerceptual ==
    /\ mgr = "perceptual"
    /\ spreadsheets = <<>>
    /\ current_spreadsheet = 0
    /\ current_worksheet = NoneWs
    /\ sheet_registry = [sheets |-> <<>>, current_sheet_index |-> 0, total_rows_used |-> 0]
    /\ pc = "find_perceptual_image_duplicates"
    /\ \E files \in ImageLists :
          call = [op |-> "find_perceptual_image_duplicates", files |-> files]
    /\ ret = NoRet
    /\ hist = <<>>
    /\ submitted = 0

find_perceptual_image_duplicates_call(fails) ==
    /\ pc = "find_perceptual_image_duplicates"
    /\ ret' = find_perceptual_image_duplicates(call.files, fails)
    /\ pc' = IF ret'.raised THEN "raised" ELSE "returned"
    /\ UNCHANGED <<mgr, spreadsheets, current_spreadsheet, current_worksheet,
                   sheet_registry, call, hist, submitted>>

NextPerceptual == \E fails \in BOOLEAN : find_perceptual_image_duplicates_call(fails)

SpecPerceptual == InitPerceptual /\ [][NextPerceptual]_vars

\* two images match: both have hashes, at an average distance within the
\* threshold
Matches(f1, f2) ==
    /\ f1.thumbnail # <<>> /\ f2.thumbnail # <<>>
    /\ hamming(f1.thumbnail, f2.thumbnail) <= config.image_hash_threshold
\* the groups of the result that hold the file
GroupsWith(duplicates, f) ==
    {g \in 1..Len(duplicates) :
        \E k \in 1..Len(duplicates[g].value.files) : duplicates[g].value.files[k].id = f.id}

\* C25: when a matches b and b matches c, the three images are in one group
\* of the result, and no image is in two groups.
C25_Transitive ==
    pc = "returned" =>
        /\ \A a, b, c \in 1..Len(call.files) :
              (/\ a # b /\ b # c /\ a # c
               /\ Matches(call.files[a], call.files[b])
               /\ Matches(call.files[b], call.files[c])) =>
                  \E g \in GroupsWith(ret.duplicates, call.files[a]) :
                      /\ g \in GroupsWith(ret.duplicates, call.files[b])
                      /\ g \in GroupsWith(ret.duplicates, call.files[c])
        /\ \A f \in 1..Len(call.files) :
              Cardinality(GroupsWith(ret.duplicates, call.files[f])) <= 1


(***************************************************************************)
(* advanced_duplicate_detector.py: detect_all_duplicates on lists of up to *)
(* MaxHashed files, which can hold two pairs of files with two hashes.     *)
(***************************************************************************)
MergeShapes ==
    HashShapes \cup
    {[file_category |-> "other", md5Checksum |-> HashText(H_2), name |-> Name(N_report),
      size |-> Size(2097152, TRUE), thumbnail |-> <<>>]}
MergeLists ==
    UNION {{[i \in 1..n |-> WithId(shapes[i], i)] : shapes \in [1..n -> MergeShapes]} :
           n \in 1..MaxHashed}

InitMerge ==
    /\ mgr = "merge"
    /\ spreadsheets = <<>>
    /\ current_spreadsheet = 0
    /\ current_worksheet = NoneWs
    /\ sheet_registry = [sheets |-> <<>>, current_sheet_index |-> 0, total_rows_used |-> 0]
    /\ pc = "detect_all_duplicates"
    /\ \E files \in MergeLists :
          call = [op |-> "detect_all_duplicates", files |-> files, perceptual_fails |-> FALSE]
    /\ ret = NoRet
    /\ hist = <<>>
    /\ submitted = 0

SpecMerge == InitMerge /\ [][NextAdv]_vars

\* the groups a strategy finds in the files of a category: one for each
\* hash that two or more files share, and those the other strategies form
FoundBy(name, fg) ==
    IF name = "exact_hash" THEN Cardinality(SharedHashes(fg.files))
    ELSE Len(run_strategy(name, fg.files, call.perceptual_fails).duplicates)
FoundIn(fg) ==
    LET names == category_strategies(fg.category)
    IN SumSeq([k \in 1..3 |->
                 IF <<"exact_hash", "fuzzy_name", "size">>[k] \in names
                 THEN FoundBy(<<"exact_hash", "fuzzy_name", "size">>[k], fg) ELSE 0])
       + (IF "perceptual_image" \in names THEN FoundBy("perceptual_image", fg) ELSE 0)
\* the hashes shared by files of more than one category
FoundAcross(file_groups) ==
    Cardinality({h \in SharedHashes(Concat(file_groups)) :
                    Cardinality(CategoriesOf([files |-> HashGroup(Concat(file_groups), h)])) > 1})
GroupsFound ==
    SumSeq([g \in 1..Len(hist.file_groups) |-> FoundIn(hist.file_groups[g])])
        + FoundAcross(hist.file_groups)
GroupsInResult == IF ret.raised THEN 0 ELSE Len(ret.duplicates)

\* C26: when detect_all_duplicates has ended, its result holds as many
\* groups as the strategies found in the categories and across them, each
\* under a key of its own.
C26_NoGroupLost ==
    Ended =>
        /\ GroupsInResult = GroupsFound
        /\ ~ret.raised =>
              \A i, j \in 1..Len(ret.duplicates) :
                  i # j => ret.duplicates[i].key # ret.duplicates[j].key


(***************************************************************************)
(* advanced_duplicate_detector.py: _rank_duplicate_groups on groups of the *)
(* three confidences, with savings below, at and above the cap of 1000 MB, *)
(* and with member counts that make scores equal (high with 2 members and  *)
(* medium with 12 members both score 320 without savings).                 *)
(***************************************************************************)
ScoreGroups ==
    {[type |-> "exact_content", confidence |-> c, files |-> [i \in 1..n |-> i],
      duplicate_count |-> n, potential_savings_mb |-> s * MB] :
        c \in {"high", "medium", "low"}, s \in {0, 1000, 2000}, n \in {2, 12}}
\* the dictionaries of n groups, for the composite score
ScoreDicts(n) ==
    {[i \in 1..n |-> [key |-> <<"group", ToString(i)>>, value |-> groups[i]]] :
        groups \in [1..n -> ScoreGroups]}

InitScore ==
    /\ mgr = "score"
    /\ spreadsheets = <<>>
    /\ current_spreadsheet = 0
    /\ current_worksheet = NoneWs
    /\ sheet_registry = [sheets |-> <<>>, current_sheet_index |-> 0, total_rows_used |-> 0]
    /\ pc = "rank_duplicate_groups"
    /\ \E n \in 1..MaxGroups : \E duplicates \in ScoreDicts(n) :
          call = [op |-> "rank_duplicate_groups", duplicates |-> duplicates]
    /\ ret = NoRet
    /\ hist = <<>>
    /\ submitted = 0

SpecScore == InitScore /\ [][NextRank]_vars

Scored == mgr = "score" /\ pc = "returned"
\* the composite score of the claim, in bytes as potential_savings_mb is
Weight(confidence) ==
    IF confidence = "high" THEN 3 ELSE IF confidence = "medium" THEN 2 ELSE 1
Composite(g) ==
    Weight(g.confidence) * 100 * MB
        + (IF g.potential_savings_mb <= 1000 * MB THEN g.potential_savings_mb ELSE 1000 * MB)
        + g.duplicate_count * 10 * MB

\* C27: the ranked list holds every group of the input once, with its score
\* weight * 100 + min(savings in MB, 1000) + members * 10, in the order of
\* non-increasing score, groups of equal score in the order of the input.
C27_Ranking ==
    Scored =>
        /\ Len(ret.ranked_groups) = Len(call.duplicates)
        /\ \A k \in 1..Len(call.duplicates) :
              \E i \in 1..Len(ret.ranked_groups) :
                  /\ ret.ranked_groups[i].group_id = call.duplicates[k].key
                  /\ ret.ranked_groups[i].files = call.duplicates[k].value.files
                  /\ ret.ranked_groups[i].confidence = call.duplicates[k].value.confidence
                  /\ ret.ranked_groups[i].score = Composite(call.duplicates[k].value)
        /\ \A i, j \in 1..Len(ret.ranked_groups) :
              i < j =>
                  /\ ret.ranked_groups[i].score >= ret.ranked_groups[j].score
                  /\ ret.ranked_groups[i].score = ret.ranked_groups[j].score =>
                        Discovered(ret.ranked_groups[i]) < Discovered(ret.ranked_groups[j])

\* a medium group of 12 members discovered before a high group of 2 members
\* stays before it, and a group above the cap ranks with one at the cap
C27_Witness ==
    /\ Scored /\ Len(ret.ranked_groups) = 3
    /\ ret.ranked_groups[1].potential_savings_mb = 2000 * MB
    /\ ret.ranked_groups[2].confidence = "medium" /\ ret.ranked_groups[3].confidence = "high"
    /\ ret.ranked_groups[2].score = ret.ranked_groups[3].score
    /\ Discovered(ret.ranked_groups[2]) = 1 /\ Discovered(ret.ranked_groups[3]) = 3


\* C28: the potential savings reported for a group are the bytes of its
\* members but one retained copy: (n - 1) * s for n members of size s.
C28_Savings ==
    (pc = "returned" /\ ~ret.raised) =>
        \A k \in 1..Len(ret.duplicates) :
            ret.duplicates[k].value.has_savings =>
                \E i \in 1..Len(ret.duplicates[k].value.files) :
                    ret.duplicates[k].value.potential_savings_mb =
                        total_size(ret.duplicates[k].value.files)
                            - ret.duplicates[k].value.files[i].size.bytes


(***************************************************************************)
(* The registry of AutoScalingSheetManager under calls of create_new_sheet *)
(* and add_file_data in any order.                                         *)
(***************************************************************************)
MaxCreated == 3

InitRegistry ==
    /\ mgr = "auto"
    /\ spreadsheets = <<>>
    /\ current_spreadsheet = 0
    /\ current_worksheet = NoneWs
    /\ sheet_registry = [sheets |-> <<>>, current_sheet_index |-> 0, total_rows_used |-> 0]
    /\ pc = "idle"
    /\ call = NoCall
    /\ ret = NoRet
    /\ hist = NoHist
    /\ submitted = 0

\* AutoScalingSheetManager.create_new_sheet() called by the user
create_new_sheet_call(out) ==
    /\ mgr = "auto" /\ pc = "idle" /\ Len(spreadsheets) < MaxCreated
    /\ LET Done(c) ==
               /\ Store(c.m)
               /\ ret' = [op |-> "create_new_sheet", raised |-> c.exc]
               /\ hist' = HistOf(c.m, StartHist("create_new_sheet", 0))
       IN Done(create_new_sheet(Mgr(StartHist("create_new_sheet", 0)), out))
    /\ UNCHANGED <<mgr, pc, call, submitted>>

NextRegistry ==
    \/ \E out \in AsmOutcomes : create_new_sheet_call(out)
    \/ \E file_data \in DataLists, size \in ChunkSizes :
          add_file_data(file_data, size)
    \/ \E out \in AsmOutcomes, wfail \in BOOLEAN : add_file_data_batch(out, wfail)

SpecRegistry == InitRegistry /\ [][NextRegistry]_vars

\* total_files of _update_summary_stats: the data rows the counters of the
\* main worksheets account for
RECURSIVE total_files(_)
total_files(sheets) ==
    IF Len(sheets) = 0 THEN 0
    ELSE (sheets[1].rows_used - 1) + total_files(Tail(sheets))

\* C29: between calls of create_new_sheet and add_file_data the registry's
\* total_rows_used equals the sum over the registered sheets of
\* rows_used - 1, whatever backend calls failed.
C29_RegistryTotal ==
    pc = "idle" => sheet_registry.total_rows_used = total_files(sheet_registry.sheets)


(***************************************************************************)
(* duplicate_detector.py: normalize_text as a function of the text, and    *)
(* the record keys of two records whose identifier fields hold two texts.  *)
(***************************************************************************)
MaxText == 5
MaxOther == 3
TextChars == {"a", "B", " ", "."}
TextsUpTo(n) == UNION {[1..k -> TextChars] : k \in 0..n}
KeyRow(text) == ("Document ID" :> text) @@ ("Source URL" :> <<>>)

InitNormalize ==
    /\ mgr = "normalize"
    /\ spreadsheets = <<>>
    /\ current_spreadsheet = 0
    /\ current_worksheet = NoneWs
    /\ sheet_registry = [sheets |-> <<>>, current_sheet_index |-> 0, total_rows_used |-> 0]
    /\ pc = "normalize_text"
    /\ \E text \in TextsUpTo(MaxText) : call = [op |-> "normalize_text", text |-> text]
    /\ ret = NoRet
    /\ hist = <<>>
    /\ submitted = 0

\* normalize_text(text)
normalize_text_call ==
    /\ pc = "normalize_text"
    /\ pc' = "generate_record_key"
    /\ ret' = [op |-> "normalize_text", value |-> normalize_text(call.text)]
    /\ UNCHANGED <<mgr, spreadsheets, current_spreadsheet, current_worksheet,
                   sheet_registry, call, hist, submitted>>

\* generate_record_key of a record holding the text and of one holding other
generate_record_key_call(other) ==
    /\ pc = "generate_record_key"
    /\ pc' = "done"
    /\ ret' = [op |-> "generate_record_key", value |-> ret.value, other |-> other,
               key |-> generate_record_key(KeyRow(call.text)),
               other_key |-> generate_record_key(KeyRow(other))]
    /\ UNCHANGED <<mgr, spreadsheets, current_spreadsheet, current_worksheet,
                   sheet_registry, call, hist, submitted>>

NextNormalize ==
    \/ normalize_text_call
    \/ \E other \in TextsUpTo(MaxOther) : generate_record_key_call(other)

SpecNormalize == InitNormalize /\ [][NextNormalize]_vars

\* no whitespace at either end and no two whitespace characters in a row
Collapsed(t) ==
    /\ t # <<>> => Head(t) \notin WhiteSpace /\ t[Len(t)] \notin WhiteSpace
    /\ \A k \in 1..(Len(t) - 1) : ~(t[k] \in WhiteSpace /\ t[k + 1] \in WhiteSpace)
\* the words of a text: punctuation deleted, split at whitespace
Words(t) == rstrip(lstrip(collapse_whitespace(remove_punctuation(t))))
Normalized == mgr = "normalize" /\ pc \in {"generate_record_key", "done"}

\* C30: normalize_text is idempotent, its result has no whitespace at either
\* end and no run of two whitespace characters, and two texts that differ in
\* punctuation and spacing only get the same record key.
C30_Normalized ==
    /\ Normalized =>
          normalize_text(ret.value) = ret.value /\ Collapsed(ret.value)
    /\ (mgr = "normalize" /\ pc = "done" /\ Words(call.text) = Words(ret.other)) =>
          ret.key = ret.other_key

====
